---- MODULE Spec2Model ----
(***************************************************************************)
(* Model of the member/spot reconciliation and map colouring pipeline of   *)
(* ess-arbetsschema (src/src/platsplanering.py, src/src/helpers.py).       *)
(*                                                                         *)
(* Strings are sequences of one-character strings, so that stripping,      *)
(* parsing, formatting and substring search are computed, not assumed.     *)
(* An identifier value is a record [t, v, s]: t = "int" carries the        *)
(* integer v, t = "str" carries the character sequence s.                  *)
(***************************************************************************)
EXTENDS Integers, Sequences, FiniteSets, TLC

VARIABLES
    pc,                 \* position of the running script
    log,                \* records written to the logger, in order
    raised,             \* "none", or the exception that ended the call
    thelist,            \* make_items_integer: the list argument (mutated in place)
    mii_result,         \* make_items_integer: the returned list
    members,            \* get_boats: the member table rows (dicts, mutated in place)
    requested_spots,    \* get_boats: ids that requested a spot (list, appended to)
    scheduled,          \* get_boats: ids booked for dry dock
    already_there,      \* get_boats, add_boats_to_map: ids already on land
    no_spot_requested,  \* get_boats: ids that declined a spot
    boats,              \* the list get_boats returns
    lines,              \* read_ex_members: the lines of the ex-members file
    ex_members,         \* the list read_ex_members returns
    slide,              \* add_boats_to_map: the shapes of the map slide, in order
    idx,                \* add_boats_to_map: position of the running for loop
    exleft,             \* add_boats_to_map: ex-members color_boats has yet to visit
    run,                \* repeated colouring: which run of the pair is under way
    first_fills,        \* repeated colouring: the fills the first run ended with
    io,                 \* the script: files read and written so far, in order
    exit_code,          \* the script: "running", or the status the process ended with
    schedule,           \* schema.py: the rows of the schedule file
    drivers,            \* schema.py: the rows of the driver sheet
    dates,              \* schema.py: the list get_dates returned
    outdir,             \* schema.py: the files of the output directory
    missing_foreman,    \* schema.py: the module-level list of that name
    generated_files,    \* schema.py: the module-level dict of that name
    template,           \* schema.py: the shapes of the map template file
    DOCUMENT_CACHE,     \* googleapi.py: the module-level dict of that name
    METADATA_CACHE,     \* googleapi.py: the module-level dict of that name
    calls,              \* googleapi.py: the calls made so far and what they returned
    requests_read,      \* send_reminders: the list read_requests returned
    missing,            \* send_reminders: the member rows selected for a reminder
    emails,             \* send_reminders: the addresses copied to the clipboard
    filedata,           \* sendemail.py: the "files" dict of the manifest
    sent,               \* sendemail.py: the messages handed to gmail_send_message
    main_balances,      \* main.find_balances: the lines printed
    schema_balances     \* schema.find_balances: the lines printed

normVars == <<thelist, mii_result>>
boatVars == <<members, requested_spots, scheduled, already_there, no_spot_requested, boats>>

exVars == <<lines, ex_members>>

mapVars == <<slide, idx, exleft>>

repeatVars == <<run, first_fills>>

scriptVars == <<io, exit_code>>

reportVars == <<schedule, drivers, dates, outdir, missing_foreman, generated_files>>

cacheVars == <<DOCUMENT_CACHE, METADATA_CACHE, calls>>

reminderVars == <<requests_read, missing, emails>>

mailVars == <<filedata, sent>>

balanceVars == <<main_balances, schema_balances>>

laterVars == <<template, cacheVars, reminderVars, mailVars, balanceVars>>

restVars == <<repeatVars, scriptVars, reportVars, laterVars>>

vars == <<pc, log, raised, normVars, boatVars, exVars, mapVars, restVars>>

----------------------------------------------------------------------------
(* Bounds *)

MaxId == 2          \* member ids are 1..MaxId
MaxLen == 3         \* longest identifier list given to make_items_integer
MaxStrLen == 2      \* longest identifier string
MaxMembers == 2     \* most rows in the member table
MaxOnLand == 1      \* longest already_there list given to get_boats
MaxLines == 2       \* most lines in the ex-members file
MaxLineLen == 2     \* longest line of the ex-members file
MaxBoats == 2       \* most boats given to add_boats_to_map
MaxShapes == 1      \* most shapes on the slide that is read
MaxMarked == 1      \* longest ex-members and on-land list given to add_boats_to_map
MaxRows == 2        \* most rows in the schedule file
MaxCalls == 3       \* most calls of the googleapi functions in one process

----------------------------------------------------------------------------
(* Characters and strings *)

Digits == <<"0", "1", "2", "3", "4", "5", "6", "7", "8", "9">>

IsDigit(c) == \E i \in 1..Len(Digits) : Digits[i] = c

DigitVal(c) == (CHOOSE i \in 1..Len(Digits) : Digits[i] = c) - 1

\* characters an identifier cell is drawn from, in code point order
IdChars == <<"#", "1", "2", "a">>

CharRank(c) == CHOOSE i \in 1..Len(IdChars) : IdChars[i] = c

RECURSIVE StringsUpTo(_, _)
StringsUpTo(chars, n) ==
    IF n = 0 THEN {<<>>}
    ELSE LET shorter == StringsUpTo(chars, n - 1)
         IN  shorter \cup {Append(s, c) : s \in shorter, c \in chars}

\* str.replace(c, "") for every non-digit c of the string: the digits remain
RECURSIVE StripNonDigits(_)
StripNonDigits(s) ==
    IF s = <<>> THEN <<>>
    ELSE IF IsDigit(Head(s)) THEN <<Head(s)>> \o StripNonDigits(Tail(s))
         ELSE StripNonDigits(Tail(s))

\* int(s) raises ValueError on the empty string
CanParseInt(s) == s # <<>> /\ \A i \in 1..Len(s) : IsDigit(s[i])

RECURSIVE ParseInt(_)
ParseInt(s) ==
    IF s = <<>> THEN 0
    ELSE 10 * ParseInt(SubSeq(s, 1, Len(s) - 1)) + DigitVal(s[Len(s)])

\* str < str in Python: lexicographic by code point
RECURSIVE StrLess(_, _)
StrLess(a, b) ==
    IF b = <<>> THEN FALSE
    ELSE IF a = <<>> THEN TRUE
    ELSE IF Head(a) = Head(b) THEN StrLess(Tail(a), Tail(b))
    ELSE CharRank(Head(a)) < CharRank(Head(b))

----------------------------------------------------------------------------
(* Identifier values *)

IntItem(n) == [t |-> "int", v |-> n, s |-> <<>>]
StrItem(str) == [t |-> "str", v |-> 0, s |-> str]

IsInt(x) == x.t = "int"

ItemLess(a, b) ==
    IF IsInt(a) /\ IsInt(b) THEN a.v < b.v ELSE StrLess(a.s, b.s)

RawItems ==
    {IntItem(n) : n \in 1..MaxId}
        \cup {StrItem(s) : s \in StringsUpTo({IdChars[i] : i \in 1..Len(IdChars)}, MaxStrLen)}

RECURSIVE SeqsUpTo(_, _)
SeqsUpTo(S, n) ==
    IF n = 0 THEN {<<>>}
    ELSE LET shorter == SeqsUpTo(S, n - 1)
         IN  shorter \cup {Append(q, x) : q \in shorter, x \in S}

Range(q) == {q[i] : i \in 1..Len(q)}

\* sorted() of a set of integers
RECURSIVE SortInts(_)
SortInts(S) ==
    IF S = {} THEN <<>>
    ELSE LET m == CHOOSE x \in S : \A y \in S : x <= y
         IN  <<m>> \o SortInts(S \ {m})

\* sorted() of a set of identifier values that are all of one type
RECURSIVE SortItems(_)
SortItems(S) ==
    IF S = {} THEN <<>>
    ELSE LET m == CHOOSE x \in S : \A y \in S \ {x} : ItemLess(x, y)
         IN  <<m>> \o SortItems(S \ {m})

Error(msg, arg) == [level |-> "error", msg |-> msg, arg |-> arg]
Warning(msg, arg) == [level |-> "warning", msg |-> msg, arg |-> arg]

----------------------------------------------------------------------------
(* make_items_integer *)

\* the loop body for one element: the element after the loop
ConvertItem(m) ==
    IF IsInt(m) THEN m
    ELSE IF CanParseInt(StripNonDigits(m.s)) THEN IntItem(ParseInt(StripNonDigits(m.s)))
    ELSE m

\* the element made int(m) raise ValueError
ConvertFails(m) == ~IsInt(m) /\ ~CanParseInt(StripNonDigits(m.s))

ConvertedList(l) == [i \in 1..Len(l) |-> ConvertItem(l[i])]

RECURSIVE ConvertLog(_)
ConvertLog(l) ==
    IF l = <<>> THEN <<>>
    ELSE (IF ConvertFails(Head(l)) THEN <<Error("Could not convert to integer", Head(l))>>
          ELSE <<>>) \o ConvertLog(Tail(l))

\* sorted() compares an int with a str as soon as both occur: TypeError
SortedRaises(S) == \E a, b \in S : IsInt(a) /\ ~IsInt(b)

MakeItemsInteger ==
    /\ pc = "make_items_integer"
    /\ thelist' = ConvertedList(thelist)
    /\ log' = log \o ConvertLog(thelist)
    /\ IF SortedRaises(Range(thelist'))
       THEN /\ raised' = "TypeError"
            /\ mii_result' = <<>>
       ELSE /\ raised' = "none"
            /\ mii_result' = SortItems(Range(thelist'))
    /\ pc' = "returned"
    /\ UNCHANGED <<boatVars, exVars, mapVars, restVars>>

\* the parts of the state a run does not use stay as constructed
NoNormalize == thelist = <<>> /\ mii_result = <<>>

NoBoats ==
    /\ members = <<>>
    /\ requested_spots = <<>>
    /\ scheduled = <<>>
    /\ already_there = <<>>
    /\ no_spot_requested = <<>>
    /\ boats = <<>>

NoExMembers == lines = <<>> /\ ex_members = <<>>

NoMap == slide = <<>> /\ idx = 0 /\ exleft = {}

NoRepeat == run = 0 /\ first_fills = <<>>

NoScript == io = <<>> /\ exit_code = "running"

NoReport ==
    /\ schedule = <<>> /\ drivers = <<>> /\ dates = <<>>
    /\ outdir = <<>> /\ missing_foreman = <<>> /\ generated_files = <<>>

NoCache == DOCUMENT_CACHE = <<>> /\ METADATA_CACHE = <<>> /\ calls = <<>>

NoReminders == requests_read = <<>> /\ missing = <<>> /\ emails = <<>>

NoMail == filedata = <<>> /\ sent = <<>>

NoBalances == main_balances = <<>> /\ schema_balances = <<>>

NoLater == template = <<>> /\ NoCache /\ NoReminders /\ NoMail /\ NoBalances

NoRest == NoRepeat /\ NoScript /\ NoReport /\ NoLater

InitNormalize ==
    /\ pc = "make_items_integer"
    /\ log = <<>>
    /\ raised = "none"
    /\ NoRest
    /\ thelist \in SeqsUpTo(RawItems, MaxLen)
    /\ mii_result = <<>>
    /\ NoBoats
    /\ NoExMembers
    /\ NoMap

NextNormalize == MakeItemsInteger

SpecNormalize == InitNormalize /\ [][NextNormalize]_vars

----------------------------------------------------------------------------
(* get_boats *)

Ids == 1..MaxId

\* the cells of the member table: dimensions are decimal strings, possibly
\* with a decimal comma
LengthCells == {<<"5">>}
WidthCells == {<<"2">>, <<"2", ",", "3">>}
Surnames == {<<"A">>}

\* the rows of the member table: every member has a boat 2 wide, and member 1
\* has a second row, 2,3 wide, which tells the rows of one id apart
MemberRows ==
    {r \in [Medlemsnr : Ids, Langd : LengthCells, Bredd : WidthCells, Efternamn : Surnames] :
        r.Bredd = <<"2">> \/ r.Medlemsnr = 1}

\* str.replace(a, b) for one-character a and b
ReplaceChar(s, a, b) == [i \in 1..Len(s) |-> IF s[i] = a THEN b ELSE s[i]]

\* float(s), in tenths, of a decimal string with at most one fractional digit
FloatTenths(s) ==
    IF \E i \in 1..Len(s) : s[i] = "."
    THEN LET i == CHOOSE k \in 1..Len(s) : s[k] = "."
         IN  10 * ParseInt(SubSeq(s, 1, i - 1)) + ParseInt(SubSeq(s, i + 1, Len(s)))
    ELSE 10 * ParseInt(s)

\* math.ceil(w * 2) / 2, in tenths: up to the nearest .0 or .5
CeilHalf(w) == ((w + 4) \div 5) * 5

\* a merge that adds nothing: scheduled and on-land ids are not made requests
MergeInto_NoAppend(req, ids) == req

\* lines 297-301 and 305-308: append the ids of a list that are missing
RECURSIVE MergeInto(_, _)
MergeInto(req, ids) ==
    IF ids = <<>> THEN req
    ELSE IF Head(ids) \in Range(req) THEN MergeInto(req, Tail(ids))
         ELSE MergeInto(Append(req, Head(ids)), Tail(ids))

RECURSIVE MergeLog(_, _, _)
MergeLog(req, ids, msg) ==
    IF ids = <<>> THEN <<>>
    ELSE IF Head(ids) \in Range(req) THEN MergeLog(req, Tail(ids), msg)
         ELSE <<Warning(msg, Head(ids))>> \o MergeLog(Append(req, Head(ids)), Tail(ids), msg)

MemberIds(rows) == {rows[i].Medlemsnr : i \in 1..Len(rows)}

\* the check of lines 310-312 left out: unknown ids pass without a warning
NotFoundLog_Silent(req, rows) == <<>>

\* lines 310-312
RECURSIVE NotFoundLog(_, _)
NotFoundLog(req, rows) ==
    IF req = <<>> THEN <<>>
    ELSE (IF Head(req) \in MemberIds(rows) THEN <<>>
          ELSE <<Warning("not found in member list", Head(req))>>)
         \o NotFoundLog(Tail(req), rows)

\* the requested flag taken the wrong way round
MakeBoat_FlagInverted(row, nospot) ==
    [member |-> row.Medlemsnr,
     length |-> FloatTenths(ReplaceChar(row.Langd, ",", ".")) + 10,
     width |-> CeilHalf(FloatTenths(ReplaceChar(row.Bredd, ",", ".")) + 10),
     name |-> row.Efternamn,
     requested |-> row.Medlemsnr \in Range(nospot)]

\* lines 316-325: the dict of a member row after the loop body
MakeBoat(row, nospot) ==
    [member |-> row.Medlemsnr,
     length |-> FloatTenths(ReplaceChar(row.Langd, ",", ".")) + 10,
     width |-> CeilHalf(FloatTenths(ReplaceChar(row.Bredd, ",", ".")) + 10),
     name |-> row.Efternamn,
     requested |-> row.Medlemsnr \notin Range(nospot)]

InRequest(row, req) == row.Medlemsnr \in Range(req)

\* line 314 and the loop over it: the selected rows, transformed
RECURSIVE Requests(_, _, _)
Requests(rows, req, nospot) ==
    IF rows = <<>> THEN <<>>
    ELSE (IF InRequest(Head(rows), req) THEN <<MakeBoat(Head(rows), nospot)>> ELSE <<>>)
         \o Requests(Tail(rows), req, nospot)

\* every row of the member table rewritten, selected or not
MutatedMembers_All(rows, req, nospot) ==
    [i \in 1..Len(rows) |-> MakeBoat(rows[i], nospot)]

\* the rows of the member table after the loop: selected rows are rewritten
MutatedMembers(rows, req, nospot) ==
    [i \in 1..Len(rows) |->
        IF InRequest(rows[i], req) THEN MakeBoat(rows[i], nospot) ELSE rows[i]]

\* line 328: {boat["member"]: boat for boat in requests}.values() keeps each
\* key at the place of its first occurrence with the last value given to it
\* first write wins
LastWithId_First(q, id) ==
    q[CHOOSE i \in 1..Len(q) : q[i].member = id /\ \A j \in 1..(i - 1) : q[j].member # id]

LastWithId(q, id) ==
    q[CHOOSE i \in 1..Len(q) : q[i].member = id /\ \A j \in (i + 1)..Len(q) : q[j].member # id]

\* no deduplication: every selected row is returned
DedupByMember_KeepAll(q, all) == q

RECURSIVE DedupByMember(_, _)
DedupByMember(q, all) ==
    IF q = <<>> THEN <<>>
    ELSE LET id == Head(q).member
             rest == SelectSeq(Tail(q), LAMBDA b : b.member # id)
         IN  <<LastWithId(all, id)>> \o DedupByMember(rest, all)

GetBoats ==
    /\ pc = "get_boats"
    /\ LET merged1 == MergeInto(requested_spots, scheduled)
           merged2 == MergeInto(merged1, already_there)
           requests == Requests(members, merged2, no_spot_requested)
       IN  /\ requested_spots' = merged2
           /\ log' = log
                  \o MergeLog(requested_spots, scheduled, "not in requests, but booked")
                  \o MergeLog(merged1, already_there, "not in requests, but on land")
                  \o NotFoundLog(merged2, members)
           /\ members' = MutatedMembers(members, merged2, no_spot_requested)
           /\ boats' = DedupByMember(requests, requests)
    /\ raised' = "none"
    /\ pc' = "got_boats"
    /\ UNCHANGED <<scheduled, already_there, no_spot_requested, normVars, exVars, mapVars, restVars>>

SortedIdLists == {SortInts(S) : S \in SUBSET Ids}

InitBoats ==
    /\ pc = "get_boats"
    /\ log = <<>>
    /\ raised = "none"
    /\ NoRest
    /\ NoNormalize
    /\ members \in SeqsUpTo(MemberRows, MaxMembers)
    /\ requested_spots \in SortedIdLists
    /\ scheduled \in SortedIdLists
    /\ already_there \in SeqsUpTo(Ids, MaxOnLand)
    /\ no_spot_requested \in SortedIdLists
    /\ boats = <<>>
    /\ NoExMembers
    /\ NoMap

NextBoats == GetBoats

SpecBoats == InitBoats /\ [][NextBoats]_vars

----------------------------------------------------------------------------
(* read_ex_members, for a document that exists as a file *)

\* line 152 without its filter: comment lines are read like the others
IsComment_Never(line) == FALSE

\* line 152: _.startswith("#")
IsComment(line) == line # <<>> /\ Head(line) = "#"

\* re.compile(r"\d+").search(line): the leftmost match, taken greedily
RECURSIVE TakeDigits(_)
TakeDigits(s) ==
    IF s = <<>> \/ ~IsDigit(Head(s)) THEN <<>>
    ELSE <<Head(s)>> \o TakeDigits(Tail(s))

RECURSIVE SearchNumber(_)
SearchNumber(s) ==
    IF s = <<>> THEN <<>>
    ELSE IF IsDigit(Head(s)) THEN TakeDigits(s)
    ELSE SearchNumber(Tail(s))

\* lines 158-162: the comprehension over the lines that were kept
RECURSIVE FirstNumbers(_)
FirstNumbers(ls) ==
    IF ls = <<>> THEN <<>>
    ELSE (IF ~IsComment(Head(ls)) /\ SearchNumber(Head(ls)) # <<>>
          THEN <<ParseInt(SearchNumber(Head(ls)))>>
          ELSE <<>>) \o FirstNumbers(Tail(ls))

ReadExMembers ==
    /\ pc = "read_ex_members"
    /\ ex_members' = FirstNumbers(lines)
    /\ pc' = "read_ex_members_done"
    /\ UNCHANGED <<log, raised, lines, normVars, boatVars, mapVars, restVars>>

\* characters a line of the file is drawn from
LineChars == {"#", "1", "a"}

FileLines == StringsUpTo(LineChars, MaxLineLen)

InitExMembers ==
    /\ pc = "read_ex_members"
    /\ log = <<>>
    /\ raised = "none"
    /\ NoRest
    /\ NoNormalize
    /\ NoBoats
    /\ \E n \in 0..MaxLines : lines \in [1..n -> FileLines]
    /\ ex_members = <<>>
    /\ NoMap

NextExMembers == ReadExMembers

SpecExMembers == InitExMembers /\ [][NextExMembers]_vars

----------------------------------------------------------------------------
(* The map slide: get_shape, color_boats, ensured_shape, add_boats_to_map *)

\* str(n) of a non-negative integer
RECURSIVE Str(_)
Str(n) == IF n < 10 THEN <<Digits[n + 1]>> ELSE Str(n \div 10) \o <<Digits[(n % 10) + 1]>>

\* "{:.1f}" of a number held in tenths
FormatTenths(n) == Str(n \div 10) \o <<".">> \o Str(n % 10)

MemberPrefix == <<"M", "e", "m", "b", "e", "r", ":">>
RectangleWord == <<"R", "e", "c", "t", "a", "n", "g", "l", "e">>

\* f"Member: {member_id}"
make_shape_name(member_id) == MemberPrefix \o <<" ">> \o Str(member_id)

IsSpace(c) == c = " " \/ c = "\n"

\* str.split(): the maximal runs of non-whitespace characters
RECURSIVE SplitFrom(_, _)
SplitFrom(s, cur) ==
    IF s = <<>> THEN (IF cur = <<>> THEN <<>> ELSE <<cur>>)
    ELSE IF IsSpace(Head(s))
         THEN (IF cur = <<>> THEN <<>> ELSE <<cur>>) \o SplitFrom(Tail(s), <<>>)
         ELSE SplitFrom(Tail(s), Append(cur, Head(s)))

Split(s) == SplitFrom(s, <<>>)

\* tok in text
Contains(text, tok) ==
    \E i \in 1..(Len(text) - Len(tok) + 1) : SubSeq(text, i, i + Len(tok) - 1) = tok

TextMatches(shape, shape_name) ==
    \E t \in Range(Split(shape_name)) : Contains(shape.text, t)

\* the text of the shapes searched before their names
get_shape_TextFirst(sl, shape_name) ==
    IF \E k \in 1..Len(sl) : TextMatches(sl[k], shape_name)
    THEN CHOOSE k \in 1..Len(sl) :
             TextMatches(sl[k], shape_name)
                 /\ \A h \in 1..(k - 1) : ~TextMatches(sl[h], shape_name)
    ELSE IF \E k \in 1..Len(sl) : sl[k].name = shape_name
    THEN CHOOSE k \in 1..Len(sl) :
             sl[k].name = shape_name /\ \A h \in 1..(k - 1) : sl[h].name # shape_name
    ELSE 0

\* helpers.get_shape: the index of the shape returned, 0 for None
get_shape(sl, shape_name) ==
    IF \E k \in 1..Len(sl) : sl[k].name = shape_name
    THEN CHOOSE k \in 1..Len(sl) :
             sl[k].name = shape_name /\ \A h \in 1..(k - 1) : sl[h].name # shape_name
    ELSE IF \E k \in 1..Len(sl) : TextMatches(sl[k], shape_name)
    THEN CHOOSE k \in 1..Len(sl) :
             TextMatches(sl[k], shape_name)
                 /\ \A h \in 1..(k - 1) : ~TextMatches(sl[h], shape_name)
    ELSE 0

SCALE == 5

\* ensured_shape: the slide once the boat's shape is found or added, sized
\* and named; the shape is the one get_shape returns or else the last one
ensured_shape(sl, shape_name, boat) ==
    LET k == get_shape(sl, shape_name)
    IN  IF k = 0
        THEN Append(sl, [name |-> shape_name, text |-> <<>>, fill |-> "nofill",
                         width |-> boat.length * SCALE, height |-> boat.width * SCALE])
        ELSE [sl EXCEPT ![k].width = boat.length * SCALE,
                        ![k].height = boat.width * SCALE,
                        ![k].name = shape_name]

EnsuredIndex(sl, shape_name) ==
    IF get_shape(sl, shape_name) = 0 THEN Len(sl) + 1 ELSE get_shape(sl, shape_name)

\* FULL.format(**expansions)
Caption(boat) ==
    Str(boat.member) \o <<" ">> \o boat.name \o <<"\n">>
        \o FormatTenths(boat.length) \o <<"x">> \o FormatTenths(boat.width)

\* both colours of the fills dict the same
Fills_AlwaysReserved(requested) == "reserved"

\* line 410: fills
Fills(requested) == IF requested THEN "reserved" ELSE "declined"

\* lines 415-435: one pass of the loop over the boats
AddBoat ==
    /\ pc = "add_boats"
    /\ idx <= Len(boats)
    /\ LET boat == boats[idx]
           shape_name == make_shape_name(boat.member)
           k == EnsuredIndex(slide, shape_name)
           ensured == ensured_shape(slide, shape_name, boat)
       IN  slide' = [ensured EXCEPT ![k].fill = Fills(boat.requested),
                                    ![k].text = Caption(boat)]
    /\ idx' = idx + 1
    /\ UNCHANGED <<pc, log, raised, exleft, normVars, boatVars, exVars, restVars>>

\* lines 436-439: the loop is over; color_boats is given list(set(ex_members))
LogCounts ==
    /\ pc = "add_boats"
    /\ idx > Len(boats)
    /\ pc' = "color_ex_members"
    /\ exleft' = Range(ex_members)
    /\ UNCHANGED <<log, raised, slide, idx, normVars, boatVars, exVars, restVars>>

\* helpers.color_boats, one pass of its loop: the slide afterwards
ColorBoat(sl, member, color) ==
    LET k == get_shape(sl, make_shape_name(member))
    IN  IF k = 0 THEN sl
        ELSE [sl EXCEPT ![k].fill = IF @ = "nofill" THEN @ ELSE color,
                        ![k].name = make_shape_name(member)]

\* color_boats called with terse=True
terse_Set == TRUE

\* the terse argument of color_boats: no caller sets it
terse == FALSE

\* what that pass logs: the TypeError of a shape without a solid fill is
\* caught and logged, a member without a shape is warned about
ColorBoatLog(sl, member) ==
    LET k == get_shape(sl, make_shape_name(member))
    IN  IF k = 0 THEN (IF terse THEN <<>> ELSE <<Warning("not found on map", member)>>)
        ELSE IF sl[k].fill = "nofill" THEN <<Error("Could not set color on shape", member)>>
        ELSE <<>>

\* line 438: color_boats over the ex-members, in the order of a set
ColorExMember ==
    /\ pc = "color_ex_members"
    /\ \E member \in exleft :
          /\ slide' = ColorBoat(slide, member, "member_left")
          /\ log' = log \o ColorBoatLog(slide, member)
          /\ exleft' = exleft \ {member}
    /\ UNCHANGED <<pc, raised, idx, normVars, boatVars, exVars, restVars>>

\* line 441: the first call of color_boats has returned, the second begins
ExMembersDone ==
    /\ pc = "color_ex_members"
    /\ exleft = {}
    /\ pc' = "color_on_land"
    /\ idx' = 1
    /\ UNCHANGED <<log, raised, slide, exleft, normVars, boatVars, exVars, restVars>>

\* line 441: color_boats over already_there, in list order
ColorOnLandMember ==
    /\ pc = "color_on_land"
    /\ idx <= Len(already_there)
    /\ slide' = ColorBoat(slide, already_there[idx], "on_land")
    /\ log' = log \o ColorBoatLog(slide, already_there[idx])
    /\ idx' = idx + 1
    /\ UNCHANGED <<pc, raised, exleft, normVars, boatVars, exVars, restVars>>

\* no shape taken for a placeholder
IsPlaceholder_Never(shape) == FALSE

\* line 444: "Rectangle" in s.name
IsPlaceholder(shape) == Contains(shape.name, RectangleWord)

\* lines 443-446: the placeholders are recoloured in order; the assignment
\* raises TypeError at the first one that has no solid fill
FirstUnfilledPlaceholder(sl) ==
    IF \E k \in 1..Len(sl) : IsPlaceholder(sl[k]) /\ sl[k].fill = "nofill"
    THEN CHOOSE k \in 1..Len(sl) :
             /\ IsPlaceholder(sl[k]) /\ sl[k].fill = "nofill"
             /\ \A h \in 1..(k - 1) : ~(IsPlaceholder(sl[h]) /\ sl[h].fill = "nofill")
    ELSE Len(sl) + 1

RecolourPlaceholders ==
    /\ pc = "color_on_land"
    /\ idx > Len(already_there)
    /\ LET stop == FirstUnfilledPlaceholder(slide)
       IN  /\ slide' = [k \in 1..Len(slide) |->
                           IF k < stop /\ IsPlaceholder(slide[k])
                           THEN [slide[k] EXCEPT !.fill = "unknown"]
                           ELSE slide[k]]
           /\ raised' = IF stop <= Len(slide) THEN "TypeError" ELSE "none"
           /\ pc' = IF stop <= Len(slide) THEN "map_raised" ELSE "map_done"
    /\ UNCHANGED <<log, idx, exleft, normVars, boatVars, exVars, restVars>>

\* the member ids on the map: one of them has the digits of the other inside
MapIds == {1, 12}

\* the boats get_boats can return: one per member id
MapBoats ==
    [member : MapIds, length : {60}, width : {30}, name : Surnames, requested : BOOLEAN]

DistinctIds(bs) == \A i, j \in 1..Len(bs) : i # j => bs[i].member # bs[j].member

\* the shapes of the slide that is read: boats of an earlier run, placeholder
\* rectangles, with or without a label and a solid fill
TemplateShapes ==
    [name : {make_shape_name(id) : id \in MapIds} \cup {RectangleWord \o <<" ", "1">>},
     text : {<<>>, Str(12)},
     fill : {"nofill", "unknown"},
     width : {100}, height : {100}]

UniqueMemberNames(sl) ==
    \A i, j \in 1..Len(sl) :
        i # j /\ ~IsPlaceholder(sl[i]) => sl[i].name # sl[j].name

InitMap ==
    /\ pc = "add_boats"
    /\ log = <<>>
    /\ raised = "none"
    /\ NoRest
    /\ NoNormalize
    /\ lines = <<>>
    /\ members = <<>> /\ requested_spots = <<>> /\ scheduled = <<>> /\ no_spot_requested = <<>>
    /\ boats \in {bs \in SeqsUpTo(MapBoats, MaxBoats) : DistinctIds(bs)}
    /\ ex_members \in SeqsUpTo(MapIds, MaxMarked)
    /\ already_there \in SeqsUpTo(MapIds, MaxMarked)
    /\ slide \in {sl \in SeqsUpTo(TemplateShapes, MaxShapes) : UniqueMemberNames(sl)}
    /\ idx = 1
    /\ exleft = {}

NextMap ==
    \/ AddBoat
    \/ LogCounts
    \/ ColorExMember
    \/ ExMembersDone
    \/ ColorOnLandMember
    \/ RecolourPlaceholders

SpecMap == InitMap /\ [][NextMap]_vars

----------------------------------------------------------------------------
(* mark_all_boats_as_unhandled and add_boats_to_map, run twice on a slide *)

IsMemberShape(shape) == Contains(shape.name, MemberPrefix)

FirstUnfilledMember(sl) ==
    IF \E k \in 1..Len(sl) : IsMemberShape(sl[k]) /\ sl[k].fill = "nofill"
    THEN CHOOSE k \in 1..Len(sl) :
             /\ IsMemberShape(sl[k]) /\ sl[k].fill = "nofill"
             /\ \A h \in 1..(k - 1) : ~(IsMemberShape(sl[h]) /\ sl[h].fill = "nofill")
    ELSE Len(sl) + 1

\* the shapes named "Member: ..." are set to the unknown colour, in order; the
\* assignment raises TypeError at the first one that has no solid fill
mark_all_boats_as_unhandled ==
    /\ pc = "mark_all"
    /\ LET stop == FirstUnfilledMember(slide)
       IN  /\ slide' = [k \in 1..Len(slide) |->
                           IF k < stop /\ IsMemberShape(slide[k])
                           THEN [slide[k] EXCEPT !.fill = "unknown"]
                           ELSE slide[k]]
           /\ raised' = IF stop <= Len(slide) THEN "TypeError" ELSE "none"
           /\ pc' = IF stop <= Len(slide) THEN "map_raised" ELSE "add_boats"
    /\ idx' = 1
    /\ UNCHANGED <<log, exleft, normVars, boatVars, exVars, restVars>>

FillsOf(sl) == [k \in 1..Len(sl) |-> sl[k].fill]

\* the pair has run once on the slide: it is run again with the same lists
RunAgain ==
    /\ pc = "map_done"
    /\ run = 1
    /\ run' = 2
    /\ first_fills' = FillsOf(slide)
    /\ pc' = "mark_all"
    /\ UNCHANGED <<log, raised, mapVars, normVars, boatVars, exVars, scriptVars, reportVars,
                   laterVars>>

InitRepeat ==
    /\ pc = "mark_all"
    /\ log = <<>>
    /\ raised = "none"
    /\ NoNormalize
    /\ lines = <<>>
    /\ members = <<>> /\ requested_spots = <<>> /\ scheduled = <<>> /\ no_spot_requested = <<>>
    /\ boats \in {bs \in SeqsUpTo(MapBoats, MaxBoats) : DistinctIds(bs)}
    /\ ex_members \in SeqsUpTo(MapIds, MaxMarked)
    /\ already_there \in SeqsUpTo(MapIds, MaxMarked)
    /\ slide \in {sl \in SeqsUpTo(TemplateShapes, MaxShapes) : UniqueMemberNames(sl)}
    /\ idx = 0
    /\ exleft = {}
    /\ run = 1
    /\ first_fills = <<>>
    /\ NoScript
    /\ NoReport
    /\ NoLater

NextRepeat ==
    \/ mark_all_boats_as_unhandled
    \/ NextMap
    \/ RunAgain

SpecRepeat == InitRepeat /\ [][NextRepeat]_vars

----------------------------------------------------------------------------
(* platsplanering.py run as a script *)

Read(file) == [op |-> "read", file |-> file]
Write(file) == [op |-> "write", file |-> file]

RevisionName == <<"R", "e", "v", "i", "s", "i", "o", "n">>
RubrikName == <<"R", "u", "b", "r", "i", "k">>
LegendPrefix == <<"L", "e", "g", "e", "n", "d", ":">>
TextBoxName == <<"T", "e", "x", "t", "B", "o", "x", " ", "1">>

\* the keys of the colors dict, in the order define_colors inserts them
ColorKeys ==
    << <<"r", "e", "s", "e", "r", "v", "e", "d">>,
       <<"d", "e", "c", "l", "i", "n", "e", "d">>,
       <<"m", "e", "m", "b", "e", "r", "_", "l", "e", "f", "t">>,
       <<"o", "n", "_", "l", "a", "n", "d">>,
       <<"u", "n", "k", "n", "o", "w", "n">> >>

ColorNames == <<"reserved", "declined", "member_left", "on_land", "unknown">>

\* f"Legend: {key}"
LegendName(i) == LegendPrefix \o <<" ">> \o ColorKeys[i]

\* datetime.now().strftime("%Y-%m-%d %H:%M"), the clock held still
Timestamp == <<"2", "0", "2", "6", "-", "1", "1", "-", "0", "4", " ", "0", "9", ":", "0", "0">>

\* the text update_revision joins with newlines
RevisionText(bs) ==
    RevisionName \o <<" ", "1", "\n">>
        \o <<"B", "å", "t", "a", "r", ":", " ">> \o Str(Len(bs)) \o <<"\n">> \o Timestamp

\* f"Varvskarta ESS {year}/{year+1}"
TitleText ==
    <<"V", "a", "r", "v", "s", "k", "a", "r", "t", "a", " ", "E", "S", "S", " ">>
        \o Str(2026) \o <<"/">> \o Str(2027)

Shape(name, text, fill) ==
    [name |-> name, text |-> text, fill |-> fill, width |-> 100, height |-> 100]

\* the revision box of the deck: none, one named Revision, or one that only
\* shows the word
RevisionBoxes ==
    { <<>>,
      <<Shape(RevisionName, <<>>, "unknown")>>,
      <<Shape(TextBoxName, RevisionName \o <<" ", "0">>, "unknown")>> }

RubrikBoxes == { <<>>, <<Shape(RubrikName, <<>>, "unknown")>> }

LegendBoxes == { <<>>, <<Shape(LegendName(1), <<>>, "unknown")>> }

\* the boat shapes of the deck: none, the shape of member 1 from an earlier
\* run, or a placeholder without a solid fill
BoatBoxes ==
    { <<>>,
      <<Shape(make_shape_name(1), <<>>, "reserved")>>,
      <<Shape(RectangleWord \o <<" ", "1">>, <<>>, "nofill")>> }

\* the decks read_pptx_file can return: boat shapes and placeholders, then
\* the revision, title and legend boxes the deck has
Decks ==
    { m \o r \o t \o l :
        m \in BoatBoxes,
        r \in RevisionBoxes, t \in RubrikBoxes, l \in LegendBoxes }

\* lines 27-46: the colour file is read when it exists
DefineColors ==
    /\ pc = "define_colors"
    /\ \E exists \in BOOLEAN :
          io' = IF exists THEN Append(io, Read("colors")) ELSE io
    /\ pc' = "read_and_process_input"
    /\ UNCHANGED <<log, raised, exit_code, normVars, boatVars, exVars, mapVars, repeatVars, laterVars, reportVars>>

\* lines 522-549, 627-629: the tables are read and reconciled; with
\* --updateboat only the requests and the members are read and one boat kept
read_and_process_input ==
    /\ pc = "read_and_process_input"
    /\ \E updateboat \in BOOLEAN :
          /\ io' = io \o
                (IF updateboat
                 THEN <<Read("requests"), Read("members")>>
                 ELSE <<Read("requests"), Read("members"), Read("on_land"),
                        Read("scheduled"), Read("requests")>>)
          /\ boats' \in {bs \in SeqsUpTo(MapBoats, MaxBoats) :
                            DistinctIds(bs) /\ (updateboat => Len(bs) <= 1)}
    /\ pc' = "read_marked"
    /\ UNCHANGED <<log, raised, exit_code, normVars, exVars, mapVars, repeatVars, laterVars, reportVars,
                   members, requested_spots, scheduled, already_there, no_spot_requested>>

\* lines 624-625: read_ex_members and read_members_on_land
ReadMarked ==
    /\ pc = "read_marked"
    /\ io' = io \o <<Read("ex_members"), Read("on_land")>>
    /\ ex_members' \in SeqsUpTo(MapIds, MaxMarked)
    /\ already_there' \in SeqsUpTo(MapIds, MaxMarked)
    /\ pc' = "read_pptx_file"
    /\ UNCHANGED <<log, raised, exit_code, normVars, lines, mapVars, repeatVars, laterVars, reportVars,
                   members, requested_spots, scheduled, no_spot_requested, boats>>

\* helpers.read_pptx_file: exit(1) when the deck is not there
read_pptx_file ==
    /\ pc = "read_pptx_file"
    /\ \/ /\ log' = Append(log, Warning("Powerpoint-file not found", "template"))
          /\ exit_code' = "1"
          /\ pc' = "exited"
          /\ UNCHANGED <<io, slide>>
       \/ /\ io' = Append(io, Read("template"))
          /\ slide' \in Decks
          /\ pc' = "mark_all"
          /\ UNCHANGED <<log, exit_code>>
    /\ UNCHANGED <<raised, idx, exleft, normVars, boatVars, exVars, repeatVars, laterVars, reportVars>>

\* lines 640 and 477-489: update_revision is handed what get_shape returns;
\* shape.text of None raises AttributeError
UpdateRevision ==
    /\ pc = "map_done"
    /\ LET k == get_shape(slide, RevisionName)
       IN  IF k = 0
           THEN /\ raised' = "AttributeError"
                /\ pc' = "script_raised"
                /\ UNCHANGED slide
           ELSE /\ slide' = [slide EXCEPT ![k].text = RevisionText(boats)]
                /\ pc' = "update_title"
                /\ UNCHANGED raised
    /\ UNCHANGED <<log, idx, exleft, normVars, boatVars, exVars, restVars>>

\* lines 642-644 and 492-501: update_title likewise
UpdateTitle ==
    /\ pc = "update_title"
    /\ LET k == get_shape(slide, RubrikName)
       IN  IF k = 0
           THEN /\ raised' = "AttributeError"
                /\ pc' = "script_raised"
                /\ UNCHANGED slide
           ELSE /\ slide' = [slide EXCEPT ![k].text = TitleText]
                /\ pc' = "update_legend"
                /\ UNCHANGED raised
    /\ UNCHANGED <<log, idx, exleft, normVars, boatVars, exVars, restVars>>

\* update_legend from key i on: a box that is not found is warned about, a
\* box without a solid fill raises TypeError
RECURSIVE update_legend(_, _, _)
update_legend(sl, lg, i) ==
    IF i > Len(ColorKeys) THEN [slide |-> sl, log |-> lg, raised |-> "none"]
    ELSE LET k == get_shape(sl, LegendName(i))
         IN  IF k = 0
             THEN update_legend(sl, Append(lg, Warning("Could not find shape", ColorNames[i])), i + 1)
             ELSE IF sl[k].fill = "nofill"
             THEN [slide |-> sl, log |-> lg, raised |-> "TypeError"]
             ELSE update_legend([sl EXCEPT ![k].fill = ColorNames[i]], lg, i + 1)

\* line 645
UpdateLegend ==
    /\ pc = "update_legend"
    /\ LET r == update_legend(slide, log, 1)
       IN  /\ slide' = r.slide
           /\ log' = r.log
           /\ raised' = r.raised
           /\ pc' = IF r.raised = "none" THEN "save" ELSE "script_raised"
    /\ UNCHANGED <<idx, exleft, normVars, boatVars, exVars, restVars>>

\* lines 646-652: the deck is saved; a PermissionError is logged and ends
\* the process with exit(1)
Save ==
    /\ pc = "save"
    /\ \/ /\ io' = Append(io, Write("outfile"))
          /\ pc' = "send_reminders"
          /\ UNCHANGED <<log, exit_code>>
       \/ /\ log' = log \o <<Error("Could not save file", "outfile"),
                             Error("File is open in another application", "outfile")>>
          /\ exit_code' = "1"
          /\ pc' = "exited"
          /\ UNCHANGED io
    /\ UNCHANGED <<raised, mapVars, normVars, boatVars, exVars, repeatVars, laterVars, reportVars>>

\* send_reminders reading the schedule report as well
ReminderReads_AlsoScheduled ==
    <<Read("members"), Read("requests"), Read("on_land"), Read("scheduled")>>

\* lines 561-577: read_members, read_requests, read_members_on_land
ReminderReads == <<Read("members"), Read("requests"), Read("on_land")>>

\* lines 654-659 and 552-603: the members, the requests and the on-land list
\* are read again; the clipboard failure is caught
send_reminders ==
    /\ pc = "send_reminders"
    /\ io' = io \o ReminderReads
    /\ \E copied \in BOOLEAN :
          log' = IF copied THEN log
                 ELSE Append(log, Error("Failed to copy emails to clipboard", "clipboard"))
    /\ exit_code' = "0"
    /\ pc' = "exited"
    /\ UNCHANGED <<raised, mapVars, normVars, boatVars, exVars, repeatVars, laterVars, reportVars>>

InitPlats ==
    /\ pc = "define_colors"
    /\ log = <<>>
    /\ raised = "none"
    /\ NoNormalize
    /\ NoBoats
    /\ NoExMembers
    /\ NoMap
    /\ NoRest

NextPlats ==
    \/ DefineColors
    \/ read_and_process_input
    \/ ReadMarked
    \/ read_pptx_file
    \/ mark_all_boats_as_unhandled
    \/ NextMap
    \/ UpdateRevision
    \/ UpdateTitle
    \/ UpdateLegend
    \/ Save
    \/ send_reminders

SpecPlats == InitPlats /\ [][NextPlats]_vars

----------------------------------------------------------------------------
(* schema.py: the per-date reports *)

Lowers == <<"a", "b", "c", "d", "e", "f", "g", "h", "i", "j", "k", "l", "m", "n", "o", "p", "q", "r", "s", "t", "u", "v", "w", "x", "y", "z", "å", "ä", "ö">>
Uppers == <<"A", "B", "C", "D", "E", "F", "G", "H", "I", "J", "K", "L", "M", "N", "O", "P", "Q", "R", "S", "T", "U", "V", "W", "X", "Y", "Z", "Å", "Ä", "Ö">>

UpperOf == [c \in Range(Lowers) |-> Uppers[CHOOSE j \in 1..Len(Lowers) : Lowers[j] = c]]

\* str.upper()
Upper(s) == [i \in 1..Len(s) |-> IF s[i] \in DOMAIN UpperOf THEN UpperOf[s[i]] ELSE s[i]]

\* lines 445-448, the year being 2026
BOAT_SCHEDULE == <<"T", "o", "r", "r", "s", "ä", "t", "t", "n", "i", "n", "g", " ", "2", "0", "2", "6">>
WORK_SCHEDULE == <<"A", "r", "b", "e", "t", "s", "p", "a", "s", "s", " ", "t", "o", "r", "r", "s", "ä", "t", "t", "n", "i", "n", "g", " ", "2", "0", "2", "6">>
FOREMAN_SCHEDULE == <<"F", "ö", "r", "m", "a", "n", "s", "p", "a", "s", "s", " ", "t", "i", "l", "l", " ", "t", "o", "r", "r", "s", "ä", "t", "t", "n", "i", "n", "g", " ", "2", "0", "2", "6", " ", "(", "f", "ö", "r", " ", "s", "t", "y", "r", "e", "l", "s", "e", "n", ")">>

\* a cell of the sheet pandas has read: NaN when left empty
NaN == [nan |-> TRUE, s |-> <<>>]
Cell(s) == [nan |-> FALSE, s |-> s]

\* today, and the dates of the schedule: one past, today, one still to come
Today == 2
Dates == 1..3

\* the people behind the rows: member 12 with every field filled in, member 1
\* shown with a nickname in brackets and no address, and the unbooked slot
People ==
    { [Medlem |-> Cell(<<"A", " ", "(", "1", "2", ")">>), Epost |-> Cell(<<"a", "2">>), Medlemsnr |-> 12,
       Mobil |-> Cell(<<"7">>), Pass_tid |-> 2],
      [Medlem |-> Cell(<<"A", " ", "(", "B", " ", "(", "1", ")">>), Epost |-> NaN, Medlemsnr |-> 1,
       Mobil |-> Cell(<<"7">>), Pass_tid |-> 1],
      [Medlem |-> NaN, Epost |-> NaN, Medlemsnr |-> 0,
       Mobil |-> NaN, Pass_tid |-> 1] }

\* the rows of the schedule file: any slot of today or later, and boat slots
\* of the date that has passed
ScheduleRows ==
    { r \in { [Schema |-> sch, Datum |-> d, Medlem |-> p.Medlem, Epost |-> p.Epost,
               Medlemsnr |-> p.Medlemsnr, Mobil |-> p.Mobil, Pass_tid |-> p.Pass_tid] :
                sch \in {BOAT_SCHEDULE, WORK_SCHEDULE, FOREMAN_SCHEDULE},
                d \in Dates, p \in People } :
        r.Datum < Today => r.Schema = BOAT_SCHEDULE /\ r.Medlemsnr = 12 }

\* lines 68-75
row_filter(row, report_date, schedule_name) ==
    /\ Upper(schedule_name) = Upper(row.Schema)
    /\ row.Datum = report_date
    /\ ~row.Medlem.nan

\* lines 78-86: every date of the model is of the current year
get_dates(sched, schedule_name) ==
    SortInts({sched[i].Datum : i \in {j \in 1..Len(sched) :
                  Contains(Upper(sched[j].Schema), Upper(schedule_name))}})

\* sorted(rows, key=Pass tid): a stable sort
RECURSIVE SortByPass(_)
SortByPass(rows) ==
    IF rows = <<>> THEN <<>>
    ELSE LET m == CHOOSE i \in 1..Len(rows) :
                     /\ \A j \in 1..Len(rows) : rows[i].Pass_tid <= rows[j].Pass_tid
                     /\ \A j \in 1..(i - 1) : rows[j].Pass_tid # rows[i].Pass_tid
         IN  <<rows[m]>> \o SortByPass(SubSeq(rows, 1, m - 1) \o SubSeq(rows, m + 1, Len(rows)))

\* lines 102-110
get_rows(sched, date, schedule_name) ==
    SortByPass(SelectSeq(sched, LAMBDA row : row_filter(row, date, schedule_name)))


\* str.split(sep) for a one-character sep
RECURSIVE SplitOnFrom(_, _, _)
SplitOnFrom(s, sep, cur) ==
    IF s = <<>> THEN <<cur>>
    ELSE IF Head(s) = sep THEN <<cur>> \o SplitOnFrom(Tail(s), sep, <<>>)
    ELSE SplitOnFrom(Tail(s), sep, Append(cur, Head(s)))

SplitOn(s, sep) == SplitOnFrom(s, sep, <<>>)

\* str.strip()
RECURSIVE Strip(_)
Strip(s) ==
    IF s = <<>> THEN <<>>
    ELSE IF IsSpace(Head(s)) THEN Strip(Tail(s))
    ELSE IF IsSpace(s[Len(s)]) THEN Strip(SubSeq(s, 1, Len(s) - 1))
    ELSE s

\* s[:-1]
DropLast(s) == SubSeq(s, 1, Len(s) - 1)

\* line 179: namn = row["Medlem (fullt namn)"].split("(")
Namn(row) == SplitOn(row.Medlem.s, "(")

\* namn[1][:-1] as int() reads it: blanks at the ends are ignored
IdText(row) == Strip(DropLast(Namn(row)[2]))

\* lines 181 and 225: IndexError without a bracket, ValueError from int()
IdRaises(row) ==
    IF Len(Namn(row)) < 2 THEN "IndexError"
    ELSE IF ~CanParseInt(IdText(row)) THEN "ValueError"
    ELSE "none"

\* lines 185, 227 and 233: int(row["Mobil"]) of an empty cell
MobilRaises(row) == IF row.Mobil.nan THEN "ValueError" ELSE "none"

\* lines 177-185 and 223-227: the cells of a boat or work row
MemberCells(row) ==
    [Pass |-> row.Pass_tid, id |-> ParseInt(IdText(row)), Namn |-> Strip(Namn(row)[1])]

\* lines 230-233: the cells of a foreman row
ForemanCells(row) == [Pass |-> row.Pass_tid, Namn |-> Strip(Namn(row)[1])]

\* the first exception the loops over the rows run into
RECURSIVE FirstRaise(_, _)
FirstRaise(rows, withId) ==
    IF rows = <<>> THEN "none"
    ELSE IF withId /\ IdRaises(Head(rows)) # "none" THEN IdRaises(Head(rows))
    ELSE IF MobilRaises(Head(rows)) # "none" THEN MobilRaises(Head(rows))
    ELSE FirstRaise(Tail(rows), withId)

ReportRaises(boatrows, work_rows, foreman_rows) ==
    IF FirstRaise(boatrows, TRUE) # "none" THEN FirstRaise(boatrows, TRUE)
    ELSE IF FirstRaise(work_rows, TRUE) # "none" THEN FirstRaise(work_rows, TRUE)
    ELSE FirstRaise(foreman_rows, FALSE)

\* the marker is written whatever the number of foreman rows
Marker_Always(foreman_rows) == TRUE

\* lines 235-237
Marker(foreman_rows) == Len(foreman_rows) = 0

\* lines 113-237: the sheet that is saved
make_excel_report(boatrows, work_rows, foreman_rows) ==
    [boat |-> [i \in 1..Len(boatrows) |-> MemberCells(boatrows[i])],
     work |-> [i \in 1..Len(work_rows) |-> MemberCells(work_rows[i])],
     foreman |-> [i \in 1..Len(foreman_rows) |-> ForemanCells(foreman_rows[i])],
     marker |-> Marker(foreman_rows)]

\* sorted() of a set of strings
RECURSIVE SortStrs(_)
SortStrs(S) ==
    IF S = {} THEN <<>>
    ELSE LET m == CHOOSE x \in S : \A y \in S \ {x} : StrLess(x, y)
         IN  <<m>> \o SortStrs(S \ {m})

\* the addresses of the rows that have one
RowEmails(rows) == {rows[i].Epost.s : i \in {j \in 1..Len(rows) : ~rows[j].Epost.nan}}

\* drivers[1:]
Rest(q) == IF q = <<>> THEN <<>> ELSE Tail(q)

\* the first row of the driver sheet is read as a driver too
DriverEmails_NoHeader(drv, date) ==
    {drv[i].email : i \in {j \in 1..Len(drv) : drv[j].date = date}}

\* line 261
DriverEmails(drv, date) ==
    {Rest(drv)[i].email : i \in {j \in 1..Len(Rest(drv)) : Rest(drv)[j].date = date}}

\* lines 243-266: the lines of the email file
save_emails(boatrows, work_rows, foreman_rows, drv, date) ==
    SortStrs(RowEmails(boatrows) \cup RowEmails(work_rows) \cup RowEmails(foreman_rows)
                \cup DriverEmails(drv, date))


\* every output file of a date given the one name
make_output_filename_OneName(date, suffix) == <<"xlsx", date>>

\* line 339: the path of an output file, by suffix and date
make_output_filename(date, suffix) == <<suffix, date>>

Manifest == <<"generated_files.json", 0>>

Paths == {make_output_filename(d, sfx) : d \in Dates, sfx \in {"xlsx", "pptx", "email.txt"}}
             \cup {Manifest}

Absent == [exists |-> FALSE, data |-> <<>>]
File(data) == [exists |-> TRUE, data |-> data]

\* the driver sheet: nothing, a header alone, a header and a driver of today,
\* or drivers from the first row on
DriverSheets ==
    { <<>>,
      <<[date |-> 0, email |-> <<"a">>]>>,
      <<[date |-> 0, email |-> <<"a">>], [date |-> Today, email |-> <<"a", "1">>]>>,
      <<[date |-> Today, email |-> <<"a", "1">>], [date |-> Today, email |-> <<"a", "2">>],
        [date |-> Today + 1, email |-> <<"a", "1">>]>> }

AnteckningName == <<"A", "n", "t", "e", "c", "k", "n", "i", "n", "g", " ", "1">>

\* the map template: the shapes of members 12 and 1 as platsplanering left
\* them, and a note
MapTemplate ==
    << Shape(make_shape_name(12),
             Caption([member |-> 12, name |-> <<"A">>, length |-> 60, width |-> 30]), "reserved"),
       Shape(make_shape_name(1),
             Caption([member |-> 1, name |-> <<"A">>, length |-> 60, width |-> 30]), "declined"),
       Shape(AnteckningName, <<>>, "nofill") >>

\* the map template as it was before member 12 had a place: the shape of
\* member 1, whose boat is 12.0 long, and a note
EarlierMapTemplate ==
    << Shape(make_shape_name(1),
             Caption([member |-> 1, name |-> <<"A">>, length |-> 120, width |-> 30]), "declined"),
       Shape(AnteckningName, <<>>, "nofill") >>

MapTemplates == {MapTemplate, EarlierMapTemplate}

\* helpers.color_boats over a list: the slide afterwards, and what is logged
RECURSIVE color_boats(_, _, _)
color_boats(sl, mbrs, color) ==
    IF mbrs = <<>> THEN sl
    ELSE color_boats(ColorBoat(sl, Head(mbrs), color), Tail(mbrs), color)

RECURSIVE color_boats_log(_, _, _)
color_boats_log(sl, mbrs, color) ==
    IF mbrs = <<>> THEN <<>>
    ELSE ColorBoatLog(sl, Head(mbrs))
             \o color_boats_log(ColorBoat(sl, Head(mbrs), color), Tail(mbrs), color)

\* lines 94-99 and 279-284
remove_shapes(sl) == SelectSeq(sl, LAMBDA sh : sh.name # AnteckningName)

\* lines 276-284: the slide that is saved
save_powerpoint(boatrows, sl) ==
    remove_shapes(color_boats(sl, [i \in 1..Len(boatrows) |-> boatrows[i].Medlemsnr],
                              "scheduled"))

Put(dict, key, value) ==
    [k \in DOMAIN dict \cup {key} |-> IF k = key THEN value ELSE dict[k]]

\* lines 442-444 and 461-463: the schedule file is read and its dates listed
ReadSchedule ==
    /\ pc = "read_schedule"
    /\ io' = Append(io, Read("schedule"))
    /\ dates' = get_dates(schedule, BOAT_SCHEDULE)
    /\ pc' = "get_drivers"
    /\ UNCHANGED <<log, raised, exit_code, schedule, drivers, outdir, missing_foreman,
                   generated_files, normVars, boatVars, exVars, mapVars, repeatVars, laterVars>>

\* lines 429-434 and 464: the driver sheet is fetched; without a sheet id
\* there are no drivers, which is warned about
get_drivers ==
    /\ pc = "get_drivers"
    /\ \/ /\ io' = Append(io, Read("drivers"))
          /\ UNCHANGED log
       \/ /\ drivers = <<>>
          /\ log' = Append(log, Warning("No driver schedule sheet ID provided", "drivers"))
          /\ UNCHANGED io
    /\ pc' = "generate_reports"
    /\ idx' = 1
    /\ UNCHANGED <<raised, exit_code, slide, exleft, reportVars,
                   normVars, boatVars, exVars, repeatVars, laterVars>>

\* lines 421-425: the files of a date that has passed are deleted
SkipPassedDate ==
    /\ pc = "generate_reports"
    /\ idx <= Len(dates)
    /\ dates[idx] < Today
    /\ outdir' = [p \in Paths |-> IF p[2] = dates[idx] THEN Absent ELSE outdir[p]]
    /\ idx' = idx + 1
    /\ UNCHANGED <<pc, log, raised, slide, exleft, scriptVars, schedule, drivers, dates,
                   missing_foreman, generated_files, normVars, boatVars, exVars, repeatVars, laterVars>>

\* lines 403-409: the map template is read afresh for a date to report on;
\* when it is not there read_pptx_file warns and calls exit(1)
ReadTemplate ==
    /\ pc = "generate_reports"
    /\ idx <= Len(dates)
    /\ dates[idx] >= Today
    /\ \/ /\ io' = Append(io, Read("template"))
          /\ slide' = template
          /\ pc' = "make_excel_report"
          /\ UNCHANGED <<log, exit_code>>
       \/ /\ log' = Append(log, Warning("Powerpoint-file not found", "template"))
          /\ exit_code' = "1"
          /\ pc' = "exited"
          /\ UNCHANGED <<io, slide>>
    /\ UNCHANGED <<raised, idx, exleft, reportVars, normVars, boatVars, exVars, repeatVars, laterVars>>

\* lines 304-310 and 113-240: the rows of the date are written to a workbook,
\* which is saved; neither a row that cannot be read nor a workbook that
\* cannot be written is handled
MakeExcelReport ==
    /\ pc = "make_excel_report"
    /\ LET date == dates[idx]
           boatrows == get_rows(schedule, date, BOAT_SCHEDULE)
           work_rows == get_rows(schedule, date, WORK_SCHEDULE)
           foreman_rows == get_rows(schedule, date, FOREMAN_SCHEDULE)
           exc == ReportRaises(boatrows, work_rows, foreman_rows)
       IN  IF exc # "none"
           THEN /\ raised' = exc
                /\ pc' = "script_raised"
                /\ UNCHANGED <<log, io, outdir>>
           ELSE /\ log' = log \o (IF Len(foreman_rows) = 0
                                  THEN <<Warning("No foreman found", date)>> ELSE <<>>)
                /\ \/ /\ outdir' = [outdir EXCEPT ![make_output_filename(date, "xlsx")] =
                                       File(make_excel_report(boatrows, work_rows, foreman_rows))]
                      /\ io' = Append(io, Write(make_output_filename(date, "xlsx")))
                      /\ pc' = "save_emails"
                      /\ UNCHANGED raised
                   \/ /\ raised' = "PermissionError"
                      /\ pc' = "script_raised"
                      /\ UNCHANGED <<io, outdir>>
    /\ UNCHANGED <<exit_code, mapVars, schedule, drivers, dates, missing_foreman,
                   generated_files, normVars, boatVars, exVars, repeatVars, laterVars>>

\* lines 311-319 and 243-266
SaveEmails ==
    /\ pc = "save_emails"
    /\ LET date == dates[idx]
           boatrows == get_rows(schedule, date, BOAT_SCHEDULE)
           work_rows == get_rows(schedule, date, WORK_SCHEDULE)
           foreman_rows == get_rows(schedule, date, FOREMAN_SCHEDULE)
       IN  /\ outdir' = [outdir EXCEPT ![make_output_filename(date, "email.txt")] =
                            File(save_emails(boatrows, work_rows, foreman_rows, drivers, date))]
           /\ io' = Append(io, Write(make_output_filename(date, "email.txt")))
    /\ pc' = "save_powerpoint"
    /\ UNCHANGED <<log, raised, exit_code, mapVars, schedule, drivers, dates, missing_foreman,
                   generated_files, normVars, boatVars, exVars, repeatVars, laterVars>>

\* lines 320-335 and 269-287: the map is coloured and saved, then make_report
\* notes a date without foreman and the three files of the date
SavePowerpoint ==
    /\ pc = "save_powerpoint"
    /\ LET date == dates[idx]
           boatrows == get_rows(schedule, date, BOAT_SCHEDULE)
           foreman_rows == get_rows(schedule, date, FOREMAN_SCHEDULE)
           mbrs == [i \in 1..Len(boatrows) |-> boatrows[i].Medlemsnr]
       IN  /\ log' = log \o color_boats_log(slide, mbrs, "scheduled")
           /\ slide' = save_powerpoint(boatrows, slide)
           /\ \/ /\ outdir' = [outdir EXCEPT ![make_output_filename(date, "pptx")] =
                                  File(save_powerpoint(boatrows, slide))]
                 /\ io' = Append(io, Write(make_output_filename(date, "pptx")))
                 /\ missing_foreman' = IF Len(foreman_rows) = 0
                                       THEN Append(missing_foreman, date)
                                       ELSE missing_foreman
                 /\ generated_files' =
                        Put(generated_files, date,
                            << make_output_filename(date, "xlsx"),
                               make_output_filename(date, "pptx"),
                               make_output_filename(date, "email.txt") >>)
                 /\ pc' = "generate_reports"
                 /\ idx' = idx + 1
                 /\ UNCHANGED raised
              \/ /\ raised' = "PermissionError"
                 /\ pc' = "script_raised"
                 /\ UNCHANGED <<io, outdir, missing_foreman, generated_files, idx>>
    /\ UNCHANGED <<exit_code, exleft, schedule, drivers, dates,
                   normVars, boatVars, exVars, repeatVars, laterVars>>

\* lines 475-494: generate_reports has returned; the manifest is written and
\* the dates without foreman are warned about
WriteManifest ==
    /\ pc = "generate_reports"
    /\ idx > Len(dates)
    /\ outdir' = [outdir EXCEPT ![Manifest] = File(generated_files)]
    /\ io' = Append(io, Write(Manifest))
    /\ log' = log \o [i \in 1..Len(missing_foreman) |->
                         Warning("No foreman assigned", missing_foreman[i])]
    /\ exit_code' = "0"
    /\ pc' = "exited"
    /\ UNCHANGED <<raised, mapVars, schedule, drivers, dates, missing_foreman,
                   generated_files, normVars, boatVars, exVars, repeatVars, laterVars>>

InitReports ==
    /\ pc = "read_schedule"
    /\ log = <<>>
    /\ raised = "none"
    /\ NoNormalize
    /\ NoBoats
    /\ NoExMembers
    /\ NoMap
    /\ NoRepeat
    /\ NoScript
    /\ schedule \in SeqsUpTo(ScheduleRows, MaxRows)
    /\ drivers \in DriverSheets
    /\ dates = <<>>
    /\ outdir = [p \in Paths |-> IF p[2] < Today /\ p # Manifest THEN File(<<>>) ELSE Absent]
    /\ missing_foreman = <<>>
    /\ generated_files = <<>>
    /\ template \in MapTemplates
    /\ NoCache /\ NoReminders /\ NoMail /\ NoBalances

NextReports ==
    \/ ReadSchedule
    \/ get_drivers
    \/ SkipPassedDate
    \/ ReadTemplate
    \/ MakeExcelReport
    \/ SaveEmails
    \/ SavePowerpoint
    \/ WriteManifest

SpecReports == InitReports /\ [][NextReports]_vars

----------------------------------------------------------------------------
(* googleapi.py: the two module-level caches *)

SheetIds == {"s1", "s2"}
RangeNames == {"r1"}

\* what spreadsheets().values().get(...).execute() can do: raise HttpError,
\* or return a result with or without the "values" key
ValueResponses ==
    { [err |-> TRUE, has |-> FALSE, values |-> <<>>],
      [err |-> FALSE, has |-> FALSE, values |-> <<>>],
      [err |-> FALSE, has |-> TRUE, values |-> << <<"a">> >>],
      [err |-> FALSE, has |-> TRUE, values |-> << <<"b">> >>] }

\* what spreadsheets().get(...).execute() can do: raise HttpError, or return
\* the metadata of the document
MetadataResponses ==
    { [err |-> TRUE, doc |-> [title |-> ""]],
      [err |-> FALSE, doc |-> [title |-> "T1"]],
      [err |-> FALSE, doc |-> [title |-> "T2"]] }

\* the {} get_metadata returns after an HttpError
EmptyDict == [title |-> ""]

\* line 117: result.get("values", [])
ValuesOf(resp) == IF resp.has THEN resp.values ELSE <<>>

\* the cache never consulted
InCache_Never(cache, key) == FALSE

\* lines 106 and 150: key in cache
InCache(cache, key) == key \in DOMAIN cache

Call(fn, key, fetched, failed, ret) ==
    [fn |-> fn, key |-> key, fetched |-> fetched, failed |-> failed, ret |-> ret]

\* lines 128-161: the cache afterwards and the call that is recorded
get_metadata(cache, sheet_id, resp) ==
    IF InCache(cache, <<sheet_id>>)
    THEN [cache |-> cache,
          calls |-> <<Call("get_metadata", <<sheet_id>>, FALSE, FALSE, cache[<<sheet_id>>])>>]
    ELSE IF resp.err
    THEN [cache |-> cache,
          calls |-> <<Call("get_metadata", <<sheet_id>>, TRUE, TRUE, EmptyDict)>>]
    ELSE [cache |-> Put(cache, <<sheet_id>>, resp.doc),
          calls |-> <<Call("get_metadata", <<sheet_id>>, TRUE, FALSE, resp.doc)>>]

\* a call of get_metadata, or of get_title or get_sheet_titles, which call it
GetMetadata ==
    /\ pc = "googleapi"
    /\ Len(calls) < MaxCalls
    /\ \E sheet_id \in SheetIds, resp \in MetadataResponses :
          LET m == get_metadata(METADATA_CACHE, sheet_id, resp)
          IN  /\ METADATA_CACHE' = m.cache
              /\ calls' = calls \o m.calls
    /\ UNCHANGED <<pc, log, raised, DOCUMENT_CACHE, template, reminderVars, mailVars, balanceVars,
                   normVars, boatVars, exVars, mapVars, repeatVars, scriptVars, reportVars>>

\* lines 84-122: a call of get_google_sheet; on a miss the title is asked for
\* first (line 108), which goes through get_metadata
GetGoogleSheet ==
    /\ pc = "googleapi"
    /\ Len(calls) < MaxCalls
    /\ \E sheet_id \in SheetIds, range_name \in RangeNames,
          mresp \in MetadataResponses, resp \in ValueResponses :
          LET key == <<sheet_id, range_name>>
              m == get_metadata(METADATA_CACHE, sheet_id, mresp)
          IN  IF InCache(DOCUMENT_CACHE, key)
              THEN /\ calls' = Append(calls, Call("get_google_sheet", key, FALSE, FALSE,
                                                  DOCUMENT_CACHE[key]))
                   /\ UNCHANGED <<DOCUMENT_CACHE, METADATA_CACHE>>
              ELSE /\ METADATA_CACHE' = m.cache
                   /\ IF resp.err
                      THEN /\ calls' = calls \o m.calls
                                  \o <<Call("get_google_sheet", key, TRUE, TRUE, <<>>)>>
                           /\ UNCHANGED DOCUMENT_CACHE
                      ELSE /\ DOCUMENT_CACHE' = Put(DOCUMENT_CACHE, key, ValuesOf(resp))
                           /\ calls' = calls \o m.calls
                                  \o <<Call("get_google_sheet", key, TRUE, FALSE, ValuesOf(resp))>>
    /\ UNCHANGED <<pc, log, raised, template, reminderVars, mailVars, balanceVars,
                   normVars, boatVars, exVars, mapVars, repeatVars, scriptVars, reportVars>>

InitCache ==
    /\ pc = "googleapi"
    /\ log = <<>>
    /\ raised = "none"
    /\ NoNormalize /\ NoBoats /\ NoExMembers /\ NoMap
    /\ NoRepeat /\ NoScript /\ NoReport
    /\ template = <<>>
    /\ NoCache /\ NoReminders /\ NoMail /\ NoBalances

NextCache ==
    \/ GetMetadata
    \/ GetGoogleSheet

SpecCache == InitCache /\ [][NextCache]_vars

----------------------------------------------------------------------------
(* platsplanering.send_reminders: who is reminded *)

\* the rows read_members returns for the columns of lines 562-569: a member
\* with a boat, one without a length, one without a width; member 1 has no
\* address
ReminderRows ==
    { [Medlemsnr |-> id, Langd |-> d[1], Bredd |-> d[2],
       Epost |-> IF id = 1 THEN NaN ELSE Cell(<<"a">> \o Str(id))] :
          id \in Ids,
          d \in { <<Cell(<<"5">>), Cell(<<"2">>)>>, <<NaN, Cell(<<"2">>)>>, <<Cell(<<"5">>), NaN>> } }

\* a member counted as having a boat on the length alone
HasBoat_LengthOnly(m) == ~m.Langd.nan

\* line 574
HasBoat(m) == ~m.Langd.nan /\ ~m.Bredd.nan

\* line 584: set(requests + already_there + ex_members)
Handled(reqs, on_land, ex) == Range(reqs) \cup Range(on_land) \cup Range(ex)

\* lines 573-586
Missing(rows, handled) ==
    SelectSeq(rows, LAMBDA m : HasBoat(m) /\ m.Medlemsnr \notin handled)

\* lines 552-603: the tables are read, the members to remind are selected and
\* their addresses are put on the clipboard; ",".join fails on an address
\* that is NaN, and the clipboard can fail: either is caught and logged
SendReminders ==
    /\ pc = "reminders"
    /\ LET selected == Missing(members, Handled(requests_read, already_there, ex_members))
       IN  /\ missing' = selected
           /\ emails' = [i \in 1..Len(selected) |-> selected[i].Epost]
           /\ \E copied \in BOOLEAN :
                 log' = IF copied /\ \A i \in 1..Len(selected) : ~selected[i].Epost.nan
                        THEN log
                        ELSE Append(log, Error("Failed to copy emails to clipboard", "clipboard"))
    /\ pc' = "reminded"
    /\ UNCHANGED <<raised, requests_read, template, cacheVars, mailVars, balanceVars,
                   normVars, boatVars, exVars, mapVars, repeatVars, scriptVars, reportVars>>

InitReminders ==
    /\ pc = "reminders"
    /\ log = <<>>
    /\ raised = "none"
    /\ NoNormalize /\ NoMap /\ NoRepeat /\ NoScript /\ NoReport
    /\ members \in SeqsUpTo(ReminderRows, MaxMembers)
    /\ requests_read \in SortedIdLists
    /\ already_there \in SeqsUpTo(Ids, MaxOnLand)
    /\ ex_members \in {<<>>, <<1>>}
    /\ requested_spots = <<>> /\ scheduled = <<>> /\ no_spot_requested = <<>> /\ boats = <<>>
    /\ lines = <<>>
    /\ missing = <<>> /\ emails = <<>>
    /\ template = <<>>
    /\ NoCache /\ NoMail /\ NoBalances

NextReminders == SendReminders

SpecReminders == InitReminders /\ [][NextReminders]_vars

----------------------------------------------------------------------------
(* sendemail.py run as a script *)

MAILFILE_EXT == "email.txt"

\* the "files" dict schema.py writes to the manifest: the three files of
\* each date reported on, keyed by the date
Manifests ==
    { [d \in S |-> << make_output_filename(d, "xlsx"),
                      make_output_filename(d, "pptx"),
                      make_output_filename(d, MAILFILE_EXT) >>] : S \in SUBSET Dates }

\* the lines of an email file, as readlines() returns them
EmailFiles ==
    { <<>>,
      << <<"a", "1", "\n">> >>,
      << <<" ", "a", "1", "\n">>, <<"a", "2", "\n">> >> }

\* line 50
TestRecipients == << <<"j", "s", "p", "r", ".", "h", "g", "s", "t", "r", "m", "@", "g", "m", "a", "i", "l", ".", "c", "o", "m">> >>

\* path.endswith(MAILFILE_EXT)
IsMailFile(path) == path[1] = MAILFILE_EXT

\* line 39: sorted(list(keys))[0]; the keys are dates written year first,
\* which sort as the dates do
FirstDate(fd) == SortInts(DOMAIN fd)[1]

\* lines 47-50: the lines of the file, stripped, and then the assignment that
\* replaces them
Recipients(flines) == TestRecipients

\* lines 37-74 and gmailapi.py 107-149: the first date of the manifest is
\* taken, its email file read, and one message handed to Gmail; an empty
\* manifest raises IndexError, an HttpError from Gmail is logged
SendEmail ==
    /\ pc = "sendemail"
    /\ IF DOMAIN filedata = {}
       THEN /\ raised' = "IndexError"
            /\ pc' = "script_raised"
            /\ UNCHANGED <<log, io, sent>>
       ELSE LET date == FirstDate(filedata)
                files == filedata[date]
                emailfile == SelectSeq(files, IsMailFile)[1]
                message == [to |-> <<"receiver">>,
                            bcc |-> Recipients(outdir[emailfile].data),
                            date |-> date,
                            attachments |-> SelectSeq(files, LAMBDA f : ~IsMailFile(f))]
            IN  /\ io' = io \o <<Read(Manifest), Read(emailfile), Read(<<"template", 0>>)>>
                /\ \/ /\ sent' = Append(sent, message)
                      /\ UNCHANGED log
                   \/ /\ log' = Append(log, Error("An error occurred", "HttpError"))
                      /\ UNCHANGED sent
                /\ pc' = "mailed"
                /\ UNCHANGED raised
    /\ UNCHANGED <<exit_code, filedata, schedule, drivers, dates, outdir, missing_foreman,
                   generated_files, template, cacheVars, reminderVars, balanceVars,
                   normVars, boatVars, exVars, mapVars, repeatVars>>

InitSendEmail ==
    /\ pc = "sendemail"
    /\ log = <<>>
    /\ raised = "none"
    /\ NoNormalize /\ NoBoats /\ NoExMembers /\ NoMap /\ NoRepeat /\ NoScript
    /\ schedule = <<>> /\ drivers = <<>> /\ dates = <<>>
    /\ missing_foreman = <<>> /\ generated_files = <<>>
    /\ filedata \in Manifests
    /\ \E content \in [Dates -> EmailFiles] :
          outdir = [p \in Paths |->
                       IF p = Manifest THEN File(filedata)
                       ELSE IF p[2] \notin DOMAIN filedata THEN Absent
                       ELSE IF IsMailFile(p) THEN File(content[p[2]])
                       ELSE File(<<>>)]
    /\ sent = <<>>
    /\ template = <<>>
    /\ NoCache /\ NoReminders /\ NoBalances

NextSendEmail == SendEmail

SpecSendEmail == InitSendEmail /\ [][NextSendEmail]_vars

----------------------------------------------------------------------------
(* find_balances of main.py and of schema.py *)

\* str(x) of a cell: the text of NaN is "nan"
PyStr(cell) == IF cell.nan THEN Cell(<<"n", "a", "n">>) ELSE cell

\* pd.isna(x): a string is never NaN
IsNa(cell) == cell.nan

\* main.py line 218: the rows for which pd.isna(row[name_column])
main_NameMissing(sched) == {i \in 1..Len(sched) : IsNa(sched[i].Medlem)}

\* schema.py line 365: the rows for which pd.isna(str(row[name_column]))
schema_NameMissing(sched) == {i \in 1..Len(sched) : IsNa(PyStr(sched[i].Medlem))}

\* the rows a slot is counted from: today or later, not skipped for the name,
\* of the boat or of the work schedule
Counted(sched, skipped, boat, work) ==
    {i \in 1..Len(sched) :
        /\ sched[i].Datum >= Today
        /\ i \notin skipped
        /\ sched[i].Schema \in {boat, work}}

SlotKey(row) == <<row.Datum, row.Pass_tid>>

KeyLess(a, b) == a[1] < b[1] \/ (a[1] = b[1] /\ a[2] < b[2])

\* sorted(schedules.items(), key=lambda x: x[0])
RECURSIVE SortKeys(_)
SortKeys(S) ==
    IF S = {} THEN <<>>
    ELSE LET m == CHOOSE x \in S : \A y \in S \ {x} : KeyLess(x, y)
         IN  <<m>> \o SortKeys(S \ {m})

\* the lines printed for a slot: short of people, or people without boats
BalanceLines(key, nboats, nhelpers) ==
    (IF nboats > 0 /\ nhelpers <= 1
     THEN <<[key |-> key, kind |-> "saknas folk", boats |-> nboats, helpers |-> nhelpers]>>
     ELSE <<>>)
    \o (IF nboats = 0 /\ nhelpers > 0
        THEN <<[key |-> key, kind |-> "överbefolkat", boats |-> 0, helpers |-> nhelpers]>>
        ELSE <<>>)

RECURSIVE BalanceReport(_, _, _, _, _)
BalanceReport(keys, sched, rows, boat, work) ==
    IF keys = <<>> THEN <<>>
    ELSE LET k == Head(keys)
             n(schema) == Cardinality({i \in rows : SlotKey(sched[i]) = k /\ sched[i].Schema = schema})
         IN  BalanceLines(k, n(boat), n(work)) \o BalanceReport(Tail(keys), sched, rows, boat, work)

\* main.py 200-235 and schema.py 347-382, which differ in the name test
find_balances(sched, skipped, boat, work) ==
    LET rows == Counted(sched, skipped, boat, work)
    IN  BalanceReport(SortKeys({SlotKey(sched[i]) : i \in rows}), sched, rows, boat, work)

MainFindBalances ==
    /\ pc = "main_find_balances"
    /\ main_balances' = find_balances(schedule, main_NameMissing(schedule), BOAT_SCHEDULE, WORK_SCHEDULE)
    /\ pc' = "schema_find_balances"
    /\ UNCHANGED <<log, raised, schema_balances, template, cacheVars, reminderVars, mailVars,
                   normVars, boatVars, exVars, mapVars, repeatVars, scriptVars, reportVars>>

SchemaFindBalances ==
    /\ pc = "schema_find_balances"
    /\ schema_balances' = find_balances(schedule, schema_NameMissing(schedule), BOAT_SCHEDULE, WORK_SCHEDULE)
    /\ pc' = "balances_done"
    /\ UNCHANGED <<log, raised, main_balances, template, cacheVars, reminderVars, mailVars,
                   normVars, boatVars, exVars, mapVars, repeatVars, scriptVars, reportVars>>

InitBalances ==
    /\ pc = "main_find_balances"
    /\ log = <<>>
    /\ raised = "none"
    /\ NoNormalize /\ NoBoats /\ NoExMembers /\ NoMap /\ NoRepeat /\ NoScript
    /\ schedule \in SeqsUpTo(ScheduleRows, MaxRows)
    /\ drivers = <<>> /\ dates = <<>> /\ outdir = <<>>
    /\ missing_foreman = <<>> /\ generated_files = <<>>
    /\ template = <<>>
    /\ NoCache /\ NoReminders /\ NoMail /\ NoBalances

NextBalances ==
    \/ MainFindBalances
    \/ SchemaFindBalances

SpecBalances == InitBalances /\ [][NextBalances]_vars

----------------------------------------------------------------------------
(* Claims *)

KnownIds == MemberIds(members)

BoatIds(bs) == {bs[i].member : i \in 1..Len(bs)}

\* the index of the last member row carrying the id
LastRow(rows, id) ==
    CHOOSE k \in 1..Len(rows) :
        rows[k].Medlemsnr = id /\ \A j \in (k + 1)..Len(rows) : rows[j].Medlemsnr # id

Logged(l, level, msg, arg) ==
    \E k \in 1..Len(l) : l[k].level = level /\ l[k].msg = msg /\ l[k].arg = arg

\* C1: the number of boats get_boats returns equals the number of distinct
\* member ids that are in requested_spots, scheduled or already_there and
\* also occur as Medlemsnr in the member table.
C1_BoatCount ==
    [][pc = "get_boats" =>
        /\ pc' = "got_boats"
        /\ Len(boats') =
              Cardinality((Range(requested_spots) \cup Range(scheduled)
                              \cup Range(already_there)) \cap KnownIds)]_vars

C1_Witness ==
    /\ pc = "got_boats"
    /\ Len(boats) >= 1
    /\ Len(boats) < Len(members)
    /\ \E id \in Range(requested_spots) : id \notin BoatIds(boats)

\* C2: every id in scheduled or already_there that is not in requested_spots
\* is added to the request list with a warning logged for it, and every
\* scheduled or on-land id of the member table is among the returned boats.
C2_ScheduledAndOnLandKept ==
    [][pc = "get_boats" =>
        /\ \A id \in Range(scheduled) \ Range(requested_spots) :
              /\ id \in Range(requested_spots')
              /\ Logged(log', "warning", "not in requests, but booked", id)
        /\ \A id \in Range(already_there) \ (Range(requested_spots) \cup Range(scheduled)) :
              /\ id \in Range(requested_spots')
              /\ Logged(log', "warning", "not in requests, but on land", id)
        /\ \A id \in (Range(scheduled) \cup Range(already_there)) \cap KnownIds :
              id \in BoatIds(boats')]_vars

C2_Witness ==
    /\ pc = "got_boats"
    /\ \E a, b \in BoatIds(boats) :
          /\ Logged(log, "warning", "not in requests, but booked", a)
          /\ Logged(log, "warning", "not in requests, but on land", b)

\* C3: for every boat returned by get_boats, requested is False if and only
\* if its member id is in no_spot_requested, whatever its membership in the
\* other lists.
C3_RequestedIffNotDeclined ==
    [][pc = "get_boats" =>
        \A i \in 1..Len(boats') :
            (boats'[i].requested = FALSE) <=> (boats'[i].member \in Range(no_spot_requested))]_vars

C3_Witness ==
    /\ pc = "got_boats"
    /\ \E i, j \in 1..Len(boats) :
          /\ ~boats[i].requested
          /\ boats[i].member \in Range(scheduled)
          /\ boats[j].requested

\* C4: the returned list holds exactly one entry per member id, and when the
\* member table has several rows with one id the entry kept is the one built
\* from the last such row.
C4_OneEntryLastWins ==
    [][pc = "get_boats" =>
        /\ \A i, j \in 1..Len(boats') : i # j => boats'[i].member # boats'[j].member
        /\ \A i \in 1..Len(boats') :
              boats'[i] = MakeBoat(members[LastRow(members, boats'[i].member)],
                                   no_spot_requested)]_vars

C4_Witness ==
    /\ pc = "got_boats"
    /\ \E i, j \in 1..Len(members) :
          /\ i < j
          /\ "member" \in DOMAIN members[i]
          /\ "member" \in DOMAIN members[j]
          /\ members[i].member = members[j].member
          /\ members[i].width # members[j].width
          /\ members[j] \in Range(boats)

\* C5: when the merged request list holds an id that is absent from the
\* member table, get_boats logs a warning for it and still returns; the
\* returned boats hold no entry for that id and hold every other matched id.
C5_UnknownIdSkipped ==
    [][pc = "get_boats" =>
        \A id \in Range(requested_spots') \ KnownIds :
            /\ Logged(log', "warning", "not found in member list", id)
            /\ pc' = "got_boats" /\ raised' = "none"
            /\ id \notin BoatIds(boats')
            /\ \A other \in Range(requested_spots') \cap KnownIds :
                  other \in BoatIds(boats')]_vars

C5_Witness ==
    /\ pc = "got_boats"
    /\ Len(boats) >= 1
    /\ \E id \in Range(requested_spots) :
          /\ id \notin BoatIds(boats)
          /\ Logged(log, "warning", "not found in member list", id)

HasDigit(line) == \E i \in 1..Len(line) : IsDigit(line[i])

\* the value of the first maximal run of digits of a line that has a digit
FirstIntegerOf(line) ==
    LET i == CHOOSE k \in 1..Len(line) :
                 IsDigit(line[k]) /\ \A h \in 1..(k - 1) : ~IsDigit(line[h])
        j == CHOOSE k \in i..Len(line) :
                 /\ \A h \in i..k : IsDigit(line[h])
                 /\ (k = Len(line) \/ ~IsDigit(line[k + 1]))
    IN  ParseInt(SubSeq(line, i, j))

\* the indices of the lines that contribute a number, in file order
Contributing(ls) ==
    SortInts({i \in 1..Len(ls) : HasDigit(ls[i]) /\ ls[i][1] # "#"})

Named(sl, shape_name) == {k \in 1..Len(sl) : sl[k].name = shape_name}

\* C9: after add_boats_to_map over boats with distinct member ids every boat
\* has a shape named 'Member: <id>'; while the boats are placed, the shape
\* that already has that name is reused (the slide gains no shape), and
\* otherwise a new rectangle is created and the existing shapes are left as
\* they are.
C9_EveryBoatHasItsShape ==
    /\ [](pc = "map_done" =>
            \A i \in 1..Len(boats) : Named(slide, make_shape_name(boats[i].member)) # {})
    /\ [][pc = "add_boats" /\ idx <= Len(boats) =>
            LET shape_name == make_shape_name(boats[idx].member)
            IN  IF Named(slide, shape_name) # {}
                THEN /\ Len(slide') = Len(slide)
                     /\ Named(slide', shape_name) = Named(slide, shape_name)
                ELSE /\ Len(slide') = Len(slide) + 1
                     /\ slide'[Len(slide')].name = shape_name
                     /\ \A k \in 1..Len(slide) : slide'[k] = slide[k]]_vars

C11_SecondRunSameFills ==
    run = 2 /\ pc = "map_done" => FillsOf(slide) = first_fills

C13_MissingTitleShapeSkipped ==
    [][(\/ pc = "map_done" /\ get_shape(slide, RevisionName) = 0
        \/ pc = "update_title" /\ get_shape(slide, RubrikName) = 0)
       => raised' = "none" /\ pc' \in {"update_title", "update_legend"}]_vars


\* the rows of a schedule type on a date that have a member booked
BookedRows(schema, d) ==
    {i \in 1..Len(schedule) :
        /\ schedule[i].Schema = schema /\ schedule[i].Datum = d /\ ~schedule[i].Medlem.nan}

Reported(d) == d \in DOMAIN generated_files

ReportOf(d) == outdir[<<"xlsx", d>>].data

\* C14: for every date make_report has written a report for, the report has
\* the INGEN FÖRMAN marker exactly when no foreman row is booked on that date,
\* and the date is in missing_foreman, once, exactly then
C14_MarkerIffNoForeman ==
    \A d \in Dates :
        Reported(d) =>
            /\ ReportOf(d).marker <=> BookedRows(FOREMAN_SCHEDULE, d) = {}
            /\ Cardinality({i \in 1..Len(missing_foreman) : missing_foreman[i] = d})
                   = IF BookedRows(FOREMAN_SCHEDULE, d) = {} THEN 1 ELSE 0

\* one reported date has a foreman, another has none
C14_Witness ==
    \E d1, d2 \in Dates :
        /\ Reported(d1) /\ Reported(d2)
        /\ ReportOf(d1).marker /\ d1 \in Range(missing_foreman)
        /\ ~ReportOf(d2).marker /\ d2 \notin Range(missing_foreman)

\* the field reads <name> (<id>): it ends with a bracketed run of digits,
\* which begins at position k
HasForm(field, k) ==
    /\ k > 2 /\ k < Len(field) - 1
    /\ field[k] = "(" /\ field[k - 1] = " " /\ field[Len(field)] = ")"
    /\ \A i \in (k + 1)..(Len(field) - 1) : IsDigit(field[i])

WrittenAs(cells, field, k) ==
    \E c \in 1..Len(cells) :
        /\ cells[c].id = ParseInt(SubSeq(field, k + 1, Len(field) - 1))
        /\ cells[c].Namn = Strip(SubSeq(field, 1, k - 1))

\* C15: for every boat or work row whose Medlem (fullt namn) field reads
\* <name> (<id>), the report builder writes the integer id and the trimmed
\* name into the block of the row (the workbook being writable)
C15_IdAndNameWritten ==
    [][pc = "make_excel_report" /\ raised' # "PermissionError" =>
        \A i \in BookedRows(BOAT_SCHEDULE, dates[idx]) \cup BookedRows(WORK_SCHEDULE, dates[idx]) :
            \A k \in 1..Len(schedule[i].Medlem.s) :
                HasForm(schedule[i].Medlem.s, k) =>
                    /\ pc' = "save_emails"
                    /\ LET sheet == outdir'[<<"xlsx", dates[idx]>>].data
                       IN  IF schedule[i].Schema = BOAT_SCHEDULE
                           THEN WrittenAs(sheet.boat, schedule[i].Medlem.s, k)
                           ELSE WrittenAs(sheet.work, schedule[i].Medlem.s, k)]_vars

EmailsWritten(d) ==
    \E e \in 1..Len(io) : io[e].op = "write" /\ io[e].file = <<"email.txt", d>>

EmailsOf(d) == outdir[<<"email.txt", d>>].data

\* C16: the email file written for a date lists, in ascending order and once
\* each, exactly the addresses of the booked boat, work and foreman rows of
\* the date that have one and the addresses of the driver rows of the date,
\* the first driver row left out
C16_EmailFile ==
    \A d \in Dates :
        EmailsWritten(d) =>
            /\ \A i, j \in 1..Len(EmailsOf(d)) : i < j => StrLess(EmailsOf(d)[i], EmailsOf(d)[j])
            /\ Range(EmailsOf(d)) =
                  {schedule[i].Epost.s :
                      i \in {j \in BookedRows(BOAT_SCHEDULE, d) \cup BookedRows(WORK_SCHEDULE, d)
                                      \cup BookedRows(FOREMAN_SCHEDULE, d) :
                                ~schedule[j].Epost.nan}}
                  \cup {drivers[i].email : i \in {j \in 2..Len(drivers) : drivers[j].date = d}}

\* a member's address was collected before a driver's that sorts ahead of it,
\* and a driver in the first row of the sheet was left out
C16_Witness ==
    /\ EmailsWritten(Today)
    /\ EmailsOf(Today) = << <<"a", "2">> >>
    /\ BookedRows(BOAT_SCHEDULE, Today) # {}
    /\ Len(drivers) > 1 /\ drivers[1].date = Today /\ drivers[1].email = <<"a", "1">>

\* C17: when generate_reports is over, generated_files has an entry for
\* exactly the dates of the list that are today or later, each entry being
\* the date's report, map and email paths in that order; a date before today
\* has no entry and no report
C17_GeneratedFiles ==
    pc = "generate_reports" /\ idx > Len(dates) =>
        /\ DOMAIN generated_files = {d \in Range(dates) : d >= Today}
        /\ \A d \in DOMAIN generated_files :
              generated_files[d] = << <<"xlsx", d>>, <<"pptx", d>>, <<"email.txt", d>> >>
        /\ \A d \in Range(dates) : d < Today => ~outdir[<<"xlsx", d>>].exists

C17_Witness ==
    /\ pc = "generate_reports" /\ idx > Len(dates)
    /\ \E d \in Range(dates) : d < Today
    /\ \E d \in Range(dates) : d >= Today /\ outdir[<<"xlsx", d>>].exists

\* a step in which saving an output file is refused: the deck of
\* platsplanering, or the workbook or the map of the report script
SaveRefused ==
    \/ pc = "save" /\ pc' = "exited"
    \/ pc \in {"make_excel_report", "save_powerpoint"} /\ raised' = "PermissionError"

\* C18: when saving an output file fails with a permission error, the run
\* logs an error and ends with a non-zero exit, and takes no later step
C18_PermissionErrorLoggedThenExit ==
    /\ [][SaveRefused =>
            /\ \E k \in (Len(log) + 1)..Len(log') :
                  log'[k].level = "error" /\ log'[k].msg # "Could not set color on shape"
            /\ exit_code' = "1" \/ raised' # "none"]_vars
    /\ [][pc \notin {"exited", "script_raised"}]_vars

\* C19, as stated: every read of an input file comes before the first write
\* of an output file
C19_AllReadsBeforeWrites ==
    \A i, j \in 1..Len(io) : io[i].op = "write" /\ io[j].op = "read" => j < i

\* C19, amended: the tables and the deck that the map is made from are read
\* before the deck is written; the only reads after the write are those of
\* send_reminders, of the member, request and on-land tables
C19_OnlyReminderReadsAfterWrite ==
    \A i, j \in 1..Len(io) :
        io[i].op = "write" /\ io[j].op = "read" /\ j > i =>
            /\ pc = "exited"
            /\ io[j].file \in {"members", "requests", "on_land"}

\* the deck was written and the reminders were prepared after it
C19_Witness ==
    /\ pc = "exited" /\ exit_code = "0"
    /\ \E i \in 1..Len(io) :
          /\ io[i] = Write("outfile")
          /\ \A j \in 1..Len(io) : io[j] = Read("template") => j < i
          /\ \E j \in (i + 1)..Len(io) : io[j] = Read("members")

\* the text of the shape shows one of the two words of "Member: <id>"
ShowsWord(shape, id) == Contains(shape.text, MemberPrefix) \/ Contains(shape.text, Str(id))

\* C20: get_shape returns a shape of the requested name whenever the slide
\* has one, even behind a shape that matches by text; without such a shape it
\* returns the first shape whose text contains one of the blank-separated
\* words of the requested name; it returns None only when there is neither
C20_NameBeforeText ==
    \A id \in MapIds :
        LET k == get_shape(slide, make_shape_name(id))
            named == {h \in 1..Len(slide) : slide[h].name = make_shape_name(id)}
            shown == {h \in 1..Len(slide) : ShowsWord(slide[h], id)}
        IN  /\ named # {} => k \in named
            /\ named = {} /\ shown # {} => k \in shown /\ \A h \in shown : k <= h
            /\ k = 0 <=> named = {} /\ shown = {}

\* the shape of member 1 stands behind a shape that shows a 1 in its text,
\* and has been found by its name and coloured
C20_Witness ==
    /\ pc = "map_done"
    /\ Len(slide) = 2
    /\ slide[1].name = make_shape_name(12) /\ ShowsWord(slide[1], 1)
    /\ slide[2].name = make_shape_name(1) /\ slide[2].fill = "on_land"
    /\ slide[1].fill # "on_land"

\* s.startswith(prefix)
StartsWith(s, prefix) == Len(s) >= Len(prefix) /\ SubSeq(s, 1, Len(prefix)) = prefix

\* C21: mark_all_boats_as_unhandled gives every shape whose name starts with
\* "Member:" the unknown fill and leaves the fill of every other shape alone
C21_MemberShapesUnknownOthersKept ==
    [][pc = "mark_all" =>
        /\ Len(slide') = Len(slide)
        /\ \A k \in 1..Len(slide) :
              IF StartsWith(slide[k].name, MemberPrefix)
              THEN slide'[k].fill = "unknown"
              ELSE slide'[k].fill = slide[k].fill]_vars

Processing(i) ==
    \/ pc = "add_boats" /\ idx <= Len(boats) /\ boats[idx].member = i
    \/ pc = "color_ex_members" /\ i \in exleft /\ exleft' = exleft \ {i}
    \/ pc = "color_on_land" /\ idx <= Len(already_there) /\ already_there[idx] = i

\* C24: a pass of add_boats_to_map or of color_boats for member id i leaves a
\* shape that is named "Member: <j>" for another member id j as it is: its
\* name, its size and its fill
C24_OtherMembersShapeKept ==
    [][\A i \in MapIds :
          Processing(i) =>
              \A k \in 1..Len(slide) :
                  (\E j \in MapIds \ {i} : slide[k].name = make_shape_name(j))
                      => slide'[k] = slide[k]]_vars

\* C27: get_boats changes its inputs only so: requested_spots keeps its
\* elements in their order and gains, once each, the scheduled ids and then
\* the on-land ids it did not hold; the member rows whose id is not in the
\* merged list are as they were; scheduled, already_there and
\* no_spot_requested are as they were
C27_InputsChangedOnlyByMerge ==
    [][pc = "get_boats" =>
        LET old == requested_spots
            new == requested_spots'
            added == SubSeq(new, Len(old) + 1, Len(new))
        IN  /\ Len(new) >= Len(old)
            /\ SubSeq(new, 1, Len(old)) = old
            /\ \A i, j \in 1..Len(added) : i # j => added[i] # added[j]
            /\ Range(added) = (Range(scheduled) \cup Range(already_there)) \ Range(old)
            /\ \A i, j \in 1..Len(added) :
                  i < j => ~(added[j] \in Range(scheduled) /\ added[i] \notin Range(scheduled))
            /\ Len(members') = Len(members)
            /\ \A i \in 1..Len(members) :
                  members[i].Medlemsnr \notin Range(new) => members'[i] = members[i]
            /\ scheduled' = scheduled
            /\ already_there' = already_there
            /\ no_spot_requested' = no_spot_requested]_vars

\* member 1 was booked without a request and has been appended; the row of
\* member 2, who is in no list, is as it was read, beside the rewritten row
C27_Witness ==
    /\ pc = "got_boats"
    /\ requested_spots = <<1>>
    /\ Logged(log, "warning", "not in requests, but booked", 1)
    /\ Len(members) = 2
    /\ members[1] \in MemberRows /\ members[1].Medlemsnr = 2
    /\ members[2] \notin MemberRows

\* C25: every date get_dates returns for the boat schedule has a boat-slot
\* row under row_filter, and so has every date a report is written for
C25_ReportedDateHasBoatRow ==
    /\ \A i \in 1..Len(dates) : get_rows(schedule, dates[i], BOAT_SCHEDULE) # <<>>
    /\ \A d \in Dates : Reported(d) => BookedRows(BOAT_SCHEDULE, d) # {}

\* the member a shape of the map was drawn for: the id its caption begins with
OwnerOf(shape) == ParseInt(Split(shape.text)[1])

MapWritten(d) == outdir[<<"pptx", d>>].exists /\ Reported(d)

MapOf(d) == outdir[<<"pptx", d>>].data

\* C26: the map written for a date has the scheduled colour only on shapes of
\* members that have a boat-slot row on that date
C26_ScheduledOnlyOnTheDatesBoats ==
    \A d \in Dates :
        MapWritten(d) =>
            \A k \in 1..Len(MapOf(d)) :
                MapOf(d)[k].fill = "scheduled" =>
                    \E i \in BookedRows(BOAT_SCHEDULE, d) :
                        schedule[i].Medlemsnr = OwnerOf(MapOf(d)[k])

\* the cache a recorded call looks its key up in
CacheOf(call, documents, metadata) ==
    IF call.fn = "get_metadata" THEN metadata ELSE documents

C28_RemindedMembers ==
    pc = "reminded" =>
        /\ \A i \in 1..Len(members) :
              members[i] \in Range(missing) <=>
                  /\ ~members[i].Langd.nan
                  /\ ~members[i].Bredd.nan
                  /\ members[i].Medlemsnr \notin Range(requests_read)
                  /\ members[i].Medlemsnr \notin Range(already_there)
                  /\ members[i].Medlemsnr \notin Range(ex_members)
        /\ Range(missing) \subseteq Range(members)

\* member 2 is reminded; member 1, who has a boat as well, has left and is
\* not
C28_Witness ==
    /\ pc = "reminded"
    /\ Len(missing) = 1 /\ missing[1].Medlemsnr = 2
    /\ Len(members) = 2
    /\ members[1].Medlemsnr = 2 /\ ~members[1].Langd.nan /\ ~members[1].Bredd.nan
    /\ members[2].Medlemsnr = 1 /\ ~members[2].Langd.nan /\ ~members[2].Bredd.nan
    /\ ex_members = <<1>> /\ requests_read = <<>> /\ already_there = <<>>

\* C29: sendemail sends one message, for the earliest date of the manifest:
\* its Bcc recipients are exactly the addresses listed in the email file of
\* that date and its attachments are exactly the other files of that date
C29_EarliestDateMessage ==
    /\ Len(sent) <= 1
    /\ \A m \in 1..Len(sent) :
          /\ \A d \in DOMAIN filedata : sent[m].date <= d
          /\ Range(sent[m].bcc) =
                {Strip(EmailsOf(sent[m].date)[l]) : l \in 1..Len(EmailsOf(sent[m].date))}
          /\ Range(sent[m].attachments) =
                {make_output_filename(sent[m].date, "xlsx"),
                 make_output_filename(sent[m].date, "pptx")}

\* the rows of a schedule type in a slot of today or later that have a name
NamedInSlot(schema, key) ==
    Cardinality({i \in 1..Len(schedule) :
        /\ schedule[i].Schema = schema /\ SlotKey(schedule[i]) = key
        /\ ~schedule[i].Medlem.nan})

\* C30: find_balances counts toward the boats and the helpers of a slot only
\* the rows that have a member name, and main.find_balances and
\* schema.find_balances report the same slots for the same schedule
C30_OnlyNamedRowsCounted ==
    pc = "balances_done" =>
        /\ main_balances = schema_balances
        /\ \A r \in {main_balances, schema_balances} :
              \A l \in 1..Len(r) :
                  /\ r[l].boats = NamedInSlot(BOAT_SCHEDULE, r[l].key)
                  /\ r[l].helpers = NamedInSlot(WORK_SCHEDULE, r[l].key)

\* the returned list is ascending, holds no value twice and holds only integers
IsSortedUniqueIntegers(q) ==
    /\ \A i \in 1..Len(q) : IsInt(q[i])
    /\ \A i, j \in 1..Len(q) : i < j => q[i].v < q[j].v

\* C6: for every input list of identifier values (integers and strings mixed),
\* make_items_integer returns a list that is sorted ascending, has no
\* duplicates and contains only integers.
C6_SortedUniqueIntegers ==
    pc = "returned" => raised = "none" /\ IsSortedUniqueIntegers(mii_result)

\* C7: an element that still cannot be parsed as an integer after its
\* non-digit characters are stripped is dropped from the result, a diagnostic
\* is logged for it, and the call completes normally with the other elements
\* converted.
C7_UnparseableDropped ==
    pc = "returned" =>
        \A i \in 1..Len(thelist) :
            ConvertFails(thelist[i]) =>
                /\ raised = "none"
                /\ thelist[i] \notin Range(mii_result)
                /\ \E k \in 1..Len(log) : log[k].level = "error" /\ log[k].arg = thelist[i]
                /\ \A j \in 1..Len(thelist) :
                       ~ConvertFails(thelist[j]) => thelist[j] \in Range(mii_result)

====
